---- MODULE Spec2Model ----
(***************************************************************************)
(* Model of src/release_manager.py: the InstaSlice operator release        *)
(* workflow (ReleaseManager.run_release and the operations it composes).   *)
(*                                                                         *)
(* Text is a sequence of strings whose concatenation is the Python string; *)
(* digests and commit ids are sequences of single characters so that       *)
(* startswith, strip and len are computed, not assumed.                    *)
(*                                                                         *)
(* fs and run are the repository on disk and the running process; twin is  *)
(* a second world for the two-run comparison; machine is the machine the   *)
(* dependency check of SpecPreflight runs on.                              *)
(***************************************************************************)
EXTENDS Integers, Sequences, FiniteSets, TLC

VARIABLES fs, run, twin, machine

vars == <<fs, run, twin, machine>>

(***************************************************************************)
(* Bounds of the model.                                                    *)
(***************************************************************************)
\* number of release runs started one after the other on the same path
MaxRuns == 2

(***************************************************************************)
(* Text helpers.                                                           *)
(***************************************************************************)
Range(s) == {s[i] : i \in DOMAIN s}

Rep(c, n) == [i \in 1..n |-> c]

HexChars == {"0", "1", "2", "3", "4", "5", "6", "7", "8", "9",
             "a", "b", "c", "d", "e", "f"}

Whitespace == {" ", "\n", "\t"}

\* str.startswith(prefix)
startswith(s, prefix) ==
    /\ Len(s) >= Len(prefix)
    /\ SubSeq(s, 1, Len(prefix)) = prefix

\* str.strip(): drop leading and trailing whitespace
strip(s) ==
    LET keep == {i \in DOMAIN s : s[i] \notin Whitespace}
    IN  IF keep = {} THEN <<>>
        ELSE LET lo == CHOOSE i \in keep : \A j \in keep : i <= j
                 hi == CHOOSE i \in keep : \A j \in keep : j <= i
             IN  SubSeq(s, lo, hi)

Sha256Prefix == <<"s", "h", "a", "2", "5", "6", ":">>

(***************************************************************************)
(* ReleaseConfig defaults.                                                 *)
(***************************************************************************)
operator_branch == "next"
tenant == "dynamicacceleratorsl-tenant"
bundle_component == "instaslice-operator-bundle-next"
quay_registry == "quay.io/redhat-user-workloads"
ocp_version == "v4.19"

(***************************************************************************)
(* Exceptions.                                                             *)
(***************************************************************************)
\* a message is a text: the pieces whose concatenation is the Python string
NoExc == [type |-> "None", msg |-> <<>>]
ReleaseError(m) == [type |-> "ReleaseError", msg |-> m]
\* any exception that is neither ReleaseError nor DependencyError
OtherError(m) == [type |-> "Exception", msg |-> m]

(***************************************************************************)
(* YAML documents as PyYAML's safe_load returns them: tagged values.       *)
(***************************************************************************)
Null == [null |-> TRUE]
\* a text that does not parse
Invalid == [invalid |-> TRUE]
Str(t) == [str |-> t]
Bool(b) == [bool |-> b]
Map(m) == [map |-> m]
List(l) == [list |-> l]

IsMap(v) == DOMAIN v = {"map"}
IsList(v) == DOMAIN v = {"list"}
IsNull(v) == DOMAIN v = {"null"}

IsStr(v) == DOMAIN v = {"str"}

\* Python's `key in v`: "true", "false" or "TypeError".  For a string it is
\* the substring test; the texts of the model are cut so that a key is a
\* substring exactly when it is one of the pieces.
In(key, v) ==
    IF IsMap(v) THEN (IF key \in DOMAIN v.map THEN "true" ELSE "false")
    ELSE IF IsList(v) THEN (IF Str(<<key>>) \in Range(v.list) THEN "true" ELSE "false")
    ELSE IF IsStr(v) THEN (IF key \in Range(v.str) THEN "true" ELSE "false")
    ELSE "TypeError"

\* Python truthiness of a loaded value
Truthy(v) ==
    IF IsMap(v) THEN DOMAIN v.map # {}
    ELSE IF IsList(v) THEN v.list # <<>>
    ELSE IF IsNull(v) THEN FALSE
    ELSE IF DOMAIN v = {"bool"} THEN v.bool
    ELSE v.str # <<>>

(***************************************************************************)
(* Files.  A YAML file is its byte-level form (fmt) and the document it    *)
(* parses to.  "block" is the exact output of yaml.dump(...,               *)
(* default_flow_style=False, sort_keys=False); "hand" is any other         *)
(* spelling of the same document (comments, indentation, quoting);         *)
(* "invalid" does not parse.                                               *)
(***************************************************************************)
AbsentFile == [absent |-> TRUE]
File(fmt, doc) == [fmt |-> fmt, doc |-> doc]
exists(f) == DOMAIN f # {"absent"}

\* yaml.safe_load(f)
safe_load(f) ==
    IF f.fmt = "invalid" THEN [raise |-> "YAMLError"] ELSE [ok |-> f.doc]

\* yaml.dump(data, f, default_flow_style=False, sort_keys=False)
dump(data) == File("block", data)


(***************************************************************************)
(* Paths relative to the repository, as tuples of path components.         *)
(***************************************************************************)
\* fbc_repo_path / ocp_version / 'catalog-template.yaml'
template_path == <<ocp_version, "catalog-template.yaml">>
\* fbc_repo_path / ocp_version / 'catalog' / 'instaslice-operator' / 'catalog.json'
output_path == <<ocp_version, "catalog", "instaslice-operator", "catalog.json">>

Paths == {template_path, output_path}

(***************************************************************************)
(* The world an operation runs in: w = [fs |-> on-disk state of the local  *)
(* repository path, run |-> the state of the running release].             *)
(*   fs.repo   "absent" | "nogit" | "git"                                  *)
(*   fs.work   path -> file in the working tree                            *)
(*   fs.index  path -> file staged in the index                            *)
(*   fs.head   path -> file in the last commit                             *)
(*   fs.catdir the directory of output_path exists                         *)
(*   fs.other  some other file has a pending change                        *)
(*   fs.log    messages of the commits made                                *)
(*   fs.fetches number of times FETCH_HEAD was rewritten                   *)
(* run holds the locals of run_release (dry_run, commit_sha, image_digest, *)
(* change_info), the exit code of the process (-1 while it runs), and      *)
(* history for the properties: calls (the operations and external          *)
(* invocations made, in order), fault, inspected (the reference given to   *)
(* skopeo), returned_sha and returned_digest (what the two resolvers       *)
(* returned), candidate (the image given to the template editor), probes   *)
(* (the subprocesses of the preflight), current_image (the local of        *)
(* update_catalog_template), start (fs when the process started), n (the   *)
(* number of the run).                                                     *)
(***************************************************************************)
Log(w, ev) == [w EXCEPT !.run.calls = Append(@, ev)]

\* the environment made an external call fail (history, for the properties)
Fault(w) == [w EXCEPT !.run.fault = TRUE]

Result(w, ret, exc) == [w |-> w, ret |-> ret, exc |-> exc]

\* K applied to the value of v, with v evaluated once
Bind(v, K(_)) == CHOOSE y \in {K(x) : x \in {v}} : TRUE

\* a call whose exception propagates to the caller; otherwise the caller
\* goes on with K
Try(v, K(_)) == Bind(v, LAMBDA r : IF r.exc # NoExc THEN r ELSE K(r))

\* outcome of a subprocess.run(..., check=True, timeout=...) chosen by the
\* environment
ToolOutcomes == {"ok", "error", "timeout"}

(***************************************************************************)
(* DependencyChecker.  pre is what the machine answers to the diagnostic   *)
(* subprocesses of the preflight:                                          *)
(*   pre.which  TRUE when the `which` program itself can be spawned        *)
(*   pre.found  the commands for which `which` exits 0                     *)
(*   pre.opm    what `opm version` does, one entry per invocation in call  *)
(*              order: [rc |-> "ok", stdout |-> text], [rc |-> "error"],   *)
(*              [rc |-> "timeout"], [rc |-> "FileNotFoundError"]           *)
(*   pre.yaml   TRUE when `import yaml` succeeded                          *)
(***************************************************************************)
\* REQUIRED_TOOLS, in the order of the dict
REQUIRED_TOOLS ==
    << [tool |-> "git", description |-> "Git version control"],
       [tool |-> "skopeo", description |-> "Container image inspection tool"],
       [tool |-> "opm", description |-> "OLM package manager (v1.47.0+)"] >>

REQUIRED_PYTHON_PACKAGES ==
    << [package |-> "yaml", description |-> "PyYAML - YAML parser"] >>

Digits == <<"0", "1", "2", "3", "4", "5", "6", "7", "8", "9">>

\* the characters of the class [0-9.]
VersionChars == Range(Digits) \cup {"."}

OpmVersionKey == "OpmVersion:\""

\* subprocess.run(['which', command]).returncode == 0; raises when `which`
\* cannot be spawned
check_command_exists(pre, command) ==
    IF ~pre.which THEN [raise |-> "FileNotFoundError"]
    ELSE [ok |-> command \in pre.found]

\* re.search(r'OpmVersion:"v?([0-9.]+)"', stdout): group 1 of the first
\* match, <<>> when there is none
re_search(stdout) ==
    LET first(i) == IF i + 1 \in DOMAIN stdout /\ stdout[i + 1] = "v" THEN i + 2 ELSE i + 1
        last(i) == CHOOSE k \in (first(i) - 1)..Len(stdout) :
                       /\ \A j \in first(i)..k : stdout[j] \in VersionChars
                       /\ (k + 1 \in DOMAIN stdout => stdout[k + 1] \notin VersionChars)
        matches(i) == /\ stdout[i] = OpmVersionKey
                      /\ last(i) >= first(i)
                      /\ last(i) + 1 \in DOMAIN stdout
                      /\ stdout[last(i) + 1] = "\""
        found == {i \in DOMAIN stdout : matches(i)}
    IN  IF found = {} THEN <<>>
        ELSE LET i == CHOOSE i \in found : \A j \in found : i <= j
             IN  SubSeq(stdout, first(i), last(i))

\* get_opm_version(): the version string, <<>> for None; out is what this
\* invocation of `opm version` does
get_opm_version(out) ==
    IF out.rc = "ok" THEN re_search(out.stdout)
    ELSE \* non-zero return code, TimeoutExpired, FileNotFoundError
         <<>>

RECURSIVE split(_, _)
\* str.split(sep)
split(s, sep) ==
    LET at == {i \in DOMAIN s : s[i] = sep}
    IN  IF at = {} THEN <<s>>
        ELSE LET i == CHOOSE i \in at : \A j \in at : i <= j
             IN  <<SubSeq(s, 1, i - 1)>> \o split(SubSeq(s, i + 1, Len(s)), sep)

RECURSIVE int(_)
\* int(text) for a text of the class [0-9]*: -1 stands for ValueError
int(cs) ==
    IF cs = <<>> THEN -1
    ELSE IF Len(cs) = 1 THEN (CHOOSE d \in DOMAIN Digits : Digits[d] = cs[1]) - 1
    ELSE int(SubSeq(cs, 1, Len(cs) - 1)) * 10 + int(<<cs[Len(cs)]>>)

\* tuple(map(int, version.split('.'))): [raise |-> "ValueError"] when a
\* component is not a number
version_tuple(version) ==
    LET parts == split(version, ".")
    IN  IF \E i \in DOMAIN parts : parts[i] = <<>> THEN [raise |-> "ValueError"]
        ELSE [ok |-> [i \in DOMAIN parts |-> int(parts[i])]]

RECURSIVE tuple_ge_strict(_, _)
\* mutant: current > required
tuple_ge_strict(current, required) ==
    IF current = <<>> THEN FALSE
    ELSE IF required = <<>> THEN TRUE
    ELSE IF current[1] # required[1] THEN current[1] > required[1]
    ELSE tuple_ge_strict(Tail(current), Tail(required))

RECURSIVE tuple_ge(_, _)
\* current >= required on tuples of integers
tuple_ge(current, required) ==
    IF required = <<>> THEN TRUE
    ELSE IF current = <<>> THEN FALSE
    ELSE IF current[1] # required[1] THEN current[1] > required[1]
    ELSE tuple_ge(Tail(current), Tail(required))

\* the default of the parameter min_version
min_version_default == <<"1", ".", "4", "7", ".", "0">>

\* check_opm_version(min_version), given the version get_opm_version returned
check_opm_version(version, min_version) ==
    IF version = <<>> THEN FALSE
    ELSE LET current == version_tuple(version)
             required == version_tuple(min_version)
         IN  IF DOMAIN current = {"raise"} THEN FALSE
             ELSE tuple_ge(current.ok, required.ok)

\* the entry for a version that does not comply: get_opm_version() is run
\* once more for the text
version_entry(out) ==
    LET version == get_opm_version(out)
    IN  IF version # <<>> THEN
            <<"opm", " - Version ">> \o version \o <<" found, but v1.47.0+ required">>
        ELSE <<"opm", " - Could not determine version, v1.47.0+ required">>

\* mutant: the version of opm is looked at whether or not opm was found
missing_for_both(pre, t) ==
    LET which == <<"which", t.tool>>
        absent == IF ~check_command_exists(pre, t.tool).ok
                  THEN << <<t.tool, " - ", t.description>> >> ELSE <<>>
    IN  IF t.tool = "opm" /\ ~check_opm_version(get_opm_version(pre.opm[1]), min_version_default) THEN
            [missing |-> absent \o <<version_entry(pre.opm[2])>>,
             probes |-> <<which, <<"opm", "version">>, <<"opm", "version">> >>]
        ELSE IF t.tool = "opm" THEN
            [missing |-> absent, probes |-> <<which, <<"opm", "version">> >>]
        ELSE [missing |-> absent, probes |-> <<which>>]

\* one turn of the loop over REQUIRED_TOOLS: the entries appended to
\* missing and the subprocesses run
missing_for(pre, t) ==
    LET which == <<"which", t.tool>>
    IN  IF ~check_command_exists(pre, t.tool).ok THEN
            [missing |-> << <<t.tool, " - ", t.description>> >>, probes |-> <<which>>]
        ELSE IF t.tool = "opm" THEN
            IF ~check_opm_version(get_opm_version(pre.opm[1]), min_version_default) THEN
                [missing |-> <<version_entry(pre.opm[2])>>,
                 probes |-> <<which, <<"opm", "version">>, <<"opm", "version">> >>]
            ELSE [missing |-> <<>>, probes |-> <<which, <<"opm", "version">> >>]
        ELSE [missing |-> <<>>, probes |-> <<which>>]

\* check_all_dependencies(): (all_present, missing), or the exception of the
\* first probe
check_all_dependencies(pre) ==
    IF ~pre.which THEN
        Result(Null, [ok |-> FALSE, missing |-> <<>>,
                      probes |-> << <<"which", REQUIRED_TOOLS[1].tool>> >>],
               OtherError(<<"FileNotFoundError">>))
    ELSE LET git == missing_for(pre, REQUIRED_TOOLS[1])
             skopeo == missing_for(pre, REQUIRED_TOOLS[2])
             opm == missing_for(pre, REQUIRED_TOOLS[3])
             packages == IF ~pre.yaml
                         THEN << <<"python3-", REQUIRED_PYTHON_PACKAGES[1].package, " - ",
                                   REQUIRED_PYTHON_PACKAGES[1].description>> >>
                         ELSE <<>>
             missing == git.missing \o skopeo.missing \o opm.missing \o packages
         IN  Result(Null, [ok |-> Len(missing) = 0, missing |-> missing,
                           probes |-> git.probes \o skopeo.probes \o opm.probes],
                    NoExc)

(***************************************************************************)
(* GitHubOperations.get_latest_commit_sha.  resp is what urlopen does:     *)
(* [err |-> "none", body |-> parsed JSON, or Invalid when not JSON],       *)
(* [err |-> "HTTPError", code |-> n, reason |-> text],                     *)
(* [err |-> "URLError", reason |-> text], and [err |-> "TimeoutError",     *)
(* reason |-> text] for a response that stops while it is read.            *)
(***************************************************************************)
\* mutant: every HTTP error is reported as the generic API error
get_latest_commit_sha_generic(w, repo_owner, repo_name, branch, resp) ==
    LET w0 == Log(Log(w, "get_latest_commit_sha"), "GET branches")
        w1 == IF resp.err = "none" THEN w0 ELSE Fault(w0)
        failed(detail) ==
            Result(w1, Null,
                   ReleaseError(<<"Failed to get commit SHA from GitHub", ": ", detail>>))
        unexpected ==
            Result(w1, Null, ReleaseError(<<"Unexpected response", " format from GitHub API">>))
    IN  IF resp.err = "HTTPError" THEN
            Result(w1, Null, ReleaseError(<<"GitHub API error", ": ", ToString(resp.code),
                                            " ", resp.reason>>))
        ELSE IF resp.err = "URLError" THEN
            Result(w1, Null, ReleaseError(<<"Network error", " accessing GitHub API: ",
                                            resp.reason>>))
        ELSE IF resp.err # "none" THEN failed(resp.reason)
        ELSE IF resp.body = Invalid THEN failed("Expecting value")
        ELSE LET data == resp.body IN
             IF ~IsMap(data) THEN failed("indices must be integers")
             ELSE IF "commit" \notin DOMAIN data.map THEN unexpected
             ELSE IF ~IsMap(data.map.commit) THEN failed("object is not subscriptable")
             ELSE IF "sha" \notin DOMAIN data.map.commit.map THEN unexpected
             ELSE Result([w1 EXCEPT !.run.returned_sha = data.map.commit.map.sha.str],
                         data.map.commit.map.sha.str, NoExc)

get_latest_commit_sha(w, repo_owner, repo_name, branch, resp) ==
    LET w0 == Log(Log(w, "get_latest_commit_sha"), "GET branches")
        w1 == IF resp.err = "none" THEN w0 ELSE Fault(w0)
        \* except Exception as e
        failed(detail) ==
            Result(w1, Null,
                   ReleaseError(<<"Failed to get commit SHA from GitHub", ": ", detail>>))
        \* except KeyError
        unexpected ==
            Result(w1, Null, ReleaseError(<<"Unexpected response", " format from GitHub API">>))
    IN  IF resp.err = "HTTPError" THEN
            IF resp.code = 404 THEN
                Result(w1, Null, ReleaseError(<<"Branch '", branch, "' ", "not found", " in ",
                                                repo_owner, "/", repo_name>>))
            ELSE IF resp.code = 403 THEN
                Result(w1, Null,
                       ReleaseError(<<"GitHub API ", "rate limit", " exceeded. ",
                                      "Try again later or set GITHUB_TOKEN environment variable.">>))
            ELSE Result(w1, Null, ReleaseError(<<"GitHub API error", ": ", ToString(resp.code),
                                                " ", resp.reason>>))
        ELSE IF resp.err = "URLError" THEN
            Result(w1, Null, ReleaseError(<<"Network error", " accessing GitHub API: ",
                                            resp.reason>>))
        ELSE IF resp.err # "none" THEN failed(resp.reason)
        ELSE IF resp.body = Invalid THEN
            \* json.loads raises JSONDecodeError
            failed("Expecting value")
        ELSE LET data == resp.body IN
             \* data['commit']['sha']
             IF ~IsMap(data) THEN failed("indices must be integers")
             ELSE IF "commit" \notin DOMAIN data.map THEN unexpected
             ELSE IF ~IsMap(data.map.commit) THEN failed("object is not subscriptable")
             ELSE IF "sha" \notin DOMAIN data.map.commit.map THEN unexpected
             ELSE \* returned_sha: history, the value the resolver returned
                  Result([w1 EXCEPT !.run.returned_sha = data.map.commit.map.sha.str],
                         data.map.commit.map.sha.str, NoExc)

(***************************************************************************)
(* GitOperations.                                                          *)
(***************************************************************************)
\* git clone: remote is the content of the cloned branch
clone_repository(w, out, remote) ==
    LET w0 == Log(Log(w, "clone_repository"), "git clone")
        w1 == IF out = "ok" THEN w0 ELSE Fault(w0)
    IN  IF out = "ok" THEN
            Result([w1 EXCEPT !.fs = [repo |-> "git", work |-> remote,
                                      index |-> remote, head |-> remote,
                                      catdir |-> exists(remote[output_path]),
                                      other |-> FALSE, log |-> <<>>,
                                      fetches |-> 0]],
                   Null, NoExc)
        ELSE IF out = "error" THEN
            Result(w1, Null, ReleaseError(<<"Failed to clone repository">>))
        ELSE Result(w1, Null, ReleaseError(<<"Repository clone timed out (>5 minutes)">>))

\* stdout of `git status --porcelain`
Porcelain(f) ==
    LET line(p) == (IF f.index[p] # f.head[p] THEN <<"M", " ", " ">> \o p \o <<"\n">> ELSE <<>>)
                   \o (IF f.work[p] # f.index[p] THEN <<" ", "M", " ">> \o p \o <<"\n">> ELSE <<>>)
    IN  line(template_path) \o line(output_path)
        \o (IF f.other THEN <<"?", "?", " ", "new_file.txt", "\n">> ELSE <<>>)

check_repo_clean(w, out) ==
    LET w0 == Log(Log(w, "check_repo_clean"), "git status")
        w1 == IF out = "ok" THEN w0 ELSE Fault(w0)
    IN  IF out = "ok" /\ w.fs.repo = "git" THEN
            Result(w1, Len(strip(Porcelain(w.fs))) = 0, NoExc)
        ELSE IF out = "timeout" THEN
            \* subprocess.TimeoutExpired is not caught here
            Result(w1, FALSE, OtherError(<<"TimeoutExpired">>))
        ELSE Result(w1, FALSE, ReleaseError(<<"Failed to check git status">>))

\* mutant: a failed fetch is logged and the run goes on
fetch_latest_lenient(w, out) ==
    LET w0 == Log(Log(w, "fetch_latest"), "git fetch")
    IN  IF out = "ok" /\ w.fs.repo = "git" THEN
            Result([w0 EXCEPT !.fs.fetches = @ + 1], Null, NoExc)
        ELSE Result(Fault(w0), Null, NoExc)

fetch_latest(w, out) ==
    LET w0 == Log(Log(w, "fetch_latest"), "git fetch")
        w1 == IF out = "ok" THEN w0 ELSE Fault(w0)
    IN  IF out = "ok" /\ w.fs.repo = "git" THEN
            Result([w1 EXCEPT !.fs.fetches = @ + 1], Null, NoExc)
        ELSE IF out = "timeout" THEN
            Result(w1, Null, OtherError(<<"TimeoutExpired">>))
        ELSE Result(w1, Null, ReleaseError(<<"Failed to fetch">>))

\* the first invocation of commit_changes: git add <files>
git_add(w, files, out) ==
    LET w0 == Log(Log(w, "commit_changes"), "git add")
        w1 == IF out = "ok" THEN w0 ELSE Fault(w0)
        known(p) == exists(w.fs.work[p]) \/ exists(w.fs.index[p])
    IN  IF out = "ok" /\ w.fs.repo = "git" /\ \A i \in DOMAIN files : known(files[i]) THEN
            Result([w1 EXCEPT !.fs.index =
                        [p \in Paths |-> IF p \in Range(files) THEN w.fs.work[p]
                                         ELSE w.fs.index[p]]],
                   Null, NoExc)
        ELSE IF out = "timeout" THEN
            Result(w1, Null, OtherError(<<"TimeoutExpired">>))
        ELSE Result(w1, Null, ReleaseError(<<"Failed to commit">>))

\* the second invocation of commit_changes: git commit -m <message>; git
\* exits non-zero when the index holds nothing to commit
git_commit(w, message, out) ==
    LET w0 == Log(w, "git commit")
        w1 == IF out = "ok" THEN w0 ELSE Fault(w0)
    IN  IF out = "ok" /\ w.fs.repo = "git" /\ w.fs.index # w.fs.head THEN
            Result([w1 EXCEPT !.fs.head = w.fs.index,
                              !.fs.log = Append(@, message)],
                   Null, NoExc)
        ELSE IF out = "timeout" THEN
            Result(w1, Null, OtherError(<<"TimeoutExpired">>))
        ELSE Result(w1, Null, ReleaseError(<<"Failed to commit">>))

(***************************************************************************)
(* ContainerImageOperations.get_image_digest.  out is what skopeo does:    *)
(* [rc |-> "ok", stdout |-> text], [rc |-> "error"], [rc |-> "timeout"].   *)
(***************************************************************************)
\* mutant: an inspection that timed out is tried once more
get_image_digest_retry(w, image_url, out) ==
    LET w0 == [Log(Log(w, "get_image_digest"), "skopeo inspect") EXCEPT
                   !.run.inspected = image_url]
        w1 == IF out.rc = "ok" THEN w0 ELSE Fault(w0)
    IN  IF out.rc = "ok" THEN
            LET digest == strip(out.stdout) IN
            IF ~startswith(digest, Sha256Prefix) THEN
                Result(w1, <<>>, ReleaseError(<<"Invalid digest format">>))
            ELSE Result([w1 EXCEPT !.run.returned_digest = digest], digest, NoExc)
        ELSE IF out.rc = "error" THEN
            Result(w1, <<>>, ReleaseError(<<"Failed to inspect image">>))
        ELSE Result(Log(w1, "skopeo inspect"), <<>>,
                    ReleaseError(<<"Image inspection timed out">>))

\* mutant: the standard output is taken as it is, not stripped
get_image_digest_unstripped(w, image_url, out) ==
    LET w0 == [Log(Log(w, "get_image_digest"), "skopeo inspect") EXCEPT
                   !.run.inspected = image_url]
        w1 == IF out.rc = "ok" THEN w0 ELSE Fault(w0)
    IN  IF out.rc = "ok" THEN
            LET digest == out.stdout IN
            IF ~startswith(digest, Sha256Prefix) THEN
                Result(w1, <<>>, ReleaseError(<<"Invalid digest format">>))
            ELSE Result([w1 EXCEPT !.run.returned_digest = digest], digest, NoExc)
        ELSE IF out.rc = "error" THEN
            Result(w1, <<>>, ReleaseError(<<"Failed to inspect image">>))
        ELSE Result(w1, <<>>, ReleaseError(<<"Image inspection timed out">>))

get_image_digest(w, image_url, out) ==
    LET w0 == [Log(Log(w, "get_image_digest"), "skopeo inspect") EXCEPT
                   !.run.inspected = image_url]
        w1 == IF out.rc = "ok" THEN w0 ELSE Fault(w0)
    IN  IF out.rc = "ok" THEN
            LET digest == strip(out.stdout) IN
            IF ~startswith(digest, Sha256Prefix) THEN
                Result(w1, <<>>, ReleaseError(<<"Invalid digest format">>))
            ELSE Result([w1 EXCEPT !.run.returned_digest = digest], digest, NoExc)
        ELSE IF out.rc = "error" THEN
            Result(w1, <<>>, ReleaseError(<<"Failed to inspect image">>))
        ELSE Result(w1, <<>>, ReleaseError(<<"Image inspection timed out">>))


(***************************************************************************)
(* FBCCatalogManager.                                                      *)
(***************************************************************************)
\* `except Exception as e` of preview_catalog_update and
\* update_catalog_template: a ReleaseError is re-raised, anything else is
\* wrapped
Wrap(exc, m) ==
    IF exc.type = "ReleaseError" THEN exc ELSE ReleaseError(m \o <<": ">> \o exc.msg)

\* type(v).__name__
TypeName(v) ==
    IF IsMap(v) THEN "dict" ELSE IF IsList(v) THEN "list" ELSE IF IsNull(v) THEN "NoneType"
    ELSE IF IsStr(v) THEN "str" ELSE "bool"

\* the TypeError of `key in v` for a v that is no container
NotIterable(v) == OtherError(<<"argument of type '", TypeName(v), "' is not iterable">>)

\* the TypeError of v[key] for a list or a string v and a string key
BadIndex(v) == OtherError(<<TypeName(v), " indices must be integers">>)

\* mutant: the Bundles list is replaced by the one new bundle
SetImage_list(data, new_bundle_image) ==
    [data EXCEPT !.map.Stable.map.Bundles =
                     List(<<Map([Image |-> Str(new_bundle_image)])>>)]

\* mutant: the new bundle is put in front of the list
SetImage_prepend(data, new_bundle_image) ==
    [data EXCEPT !.map.Stable.map.Bundles.list =
                     <<Map([Image |-> Str(new_bundle_image)])>> \o @]

\* bundles[0]['Image'] = new_bundle_image
SetImage(data, new_bundle_image) ==
    [data EXCEPT !.map.Stable.map.Bundles.list[1].map.Image = Str(new_bundle_image)]

\* mutant: the file is opened for writing before the document is checked,
\* so a call that fails leaves the template truncated
update_catalog_template_eager(w, path, new_bundle_image) ==
    LET w1 == [Log(w, "update_catalog_template") EXCEPT !.run.candidate = new_bundle_image]
        f == w.fs.work[path]
        valid(d) == /\ IsMap(d) /\ "Stable" \in DOMAIN d.map
                    /\ IsMap(d.map.Stable) /\ "Bundles" \in DOMAIN d.map.Stable.map
                    /\ IsList(d.map.Stable.map.Bundles)
                    /\ d.map.Stable.map.Bundles.list # <<>>
                    /\ IsMap(d.map.Stable.map.Bundles.list[1])
                    /\ "Image" \in DOMAIN d.map.Stable.map.Bundles.list[1].map
    IN  IF ~exists(f) THEN Result(w1, Null, ReleaseError(<<"Template not found">>))
        ELSE LET w2 == Log(Log(w1, "read template"), "write template")
                 loaded == safe_load(f)
             IN  IF DOMAIN loaded = {"ok"} /\ valid(loaded.ok) THEN
                     Result([w2 EXCEPT !.fs.work[path] =
                                 dump(SetImage(loaded.ok, new_bundle_image))], Null, NoExc)
                 ELSE Result([w2 EXCEPT !.fs.work[path] = File("block", Null)], Null,
                             ReleaseError(<<"Failed to update template">>))

update_catalog_template(w, path, new_bundle_image) ==
    LET w1 == [Log(w, "update_catalog_template") EXCEPT !.run.candidate = new_bundle_image]
        f == w.fs.work[path]
        fail(m) == Result(w1, Null, ReleaseError(m))
    IN  IF ~exists(f) THEN fail(<<"Template not found">>)
        ELSE LET w2 == Log(w1, "read template")
                 loaded == safe_load(f)
                 fail2(m) == Result(w2, Null, ReleaseError(m))
                 other2(exc) == Result(w2, Null, Wrap(exc, <<"Failed to update template">>))
             IN
             IF DOMAIN loaded = {"raise"} THEN fail2(<<"Failed to parse YAML template">>)
             ELSE LET data == loaded.ok IN
             IF In("Stable", data) = "TypeError" THEN other2(NotIterable(data))
             ELSE IF In("Stable", data) = "false" THEN fail2(<<"Template missing '", "Stable", "' section">>)
             ELSE IF ~IsMap(data) THEN other2(BadIndex(data))
             ELSE IF In("Bundles", data.map.Stable) = "TypeError" THEN
                 other2(NotIterable(data.map.Stable))
             ELSE IF In("Bundles", data.map.Stable) = "false" THEN
                 fail2(<<"Template missing '", "Stable", ".", "Bundles", "' section">>)
             ELSE IF ~IsMap(data.map.Stable) THEN other2(BadIndex(data.map.Stable))
             ELSE LET bundles == data.map.Stable.map.Bundles IN
             IF ~Truthy(bundles) \/ ~IsList(bundles) THEN
                 fail2(<<"Template has empty or invalid ", "Bundles", " list">>)
             ELSE IF In("Image", bundles.list[1]) = "TypeError" THEN
                 other2(NotIterable(bundles.list[1]))
             ELSE IF In("Image", bundles.list[1]) = "false" THEN
                 fail2(<<"Template missing '", "Image", "' field in first bundle">>)
             ELSE IF ~IsMap(bundles.list[1]) THEN other2(BadIndex(bundles.list[1]))
             ELSE \* the image is set whether or not it equals current_image,
                  \* then the whole document is dumped
                  LET current_image == bundles.list[1].map.Image
                      data2 == SetImage(data, new_bundle_image)
                      w3 == [Log(w2, "write template") EXCEPT
                                !.run.current_image = current_image]
                  IN  Result([w3 EXCEPT !.fs.work[path] = dump(data2)], Null, NoExc)

\* mutant: the preview goes through the mutating editor
preview_catalog_update_writes(w, path, new_bundle_image) ==
    Try(update_catalog_template(w, path, new_bundle_image),
        LAMBDA r :
            Result(r.w, [template_path |-> path,
                         current_image |-> r.w.run.current_image,
                         new_image |-> new_bundle_image,
                         would_change |-> r.w.run.current_image # Str(new_bundle_image)],
                   NoExc))

preview_catalog_update(w, path, new_bundle_image) ==
    LET w1 == [Log(w, "preview_catalog_update") EXCEPT !.run.candidate = new_bundle_image]
        f == w.fs.work[path]
        fail(m) == Result(w1, Null, ReleaseError(m))
    IN  IF ~exists(f) THEN fail(<<"Template not found">>)
        ELSE LET w2 == Log(w1, "read template")
                 loaded == safe_load(f)
                 fail2(m) == Result(w2, Null, ReleaseError(m))
                 other2(exc) == Result(w2, Null, Wrap(exc, <<"Failed to preview template">>))
             IN
             IF DOMAIN loaded = {"raise"} THEN fail2(<<"Failed to parse YAML template">>)
             ELSE LET data == loaded.ok IN
             IF In("Stable", data) = "TypeError" THEN other2(NotIterable(data))
             ELSE IF In("Stable", data) = "false" THEN fail2(<<"Template missing '", "Stable", "' section">>)
             ELSE IF ~IsMap(data) THEN other2(BadIndex(data))
             ELSE IF In("Bundles", data.map.Stable) = "TypeError" THEN
                 other2(NotIterable(data.map.Stable))
             ELSE IF In("Bundles", data.map.Stable) = "false" THEN
                 fail2(<<"Template missing '", "Stable", ".", "Bundles", "' section">>)
             ELSE IF ~IsMap(data.map.Stable) THEN other2(BadIndex(data.map.Stable))
             ELSE LET bundles == data.map.Stable.map.Bundles IN
             IF ~Truthy(bundles) \/ ~IsList(bundles) THEN
                 fail2(<<"Template has empty or invalid ", "Bundles", " list">>)
             ELSE IF In("Image", bundles.list[1]) = "TypeError" THEN
                 other2(NotIterable(bundles.list[1]))
             ELSE IF In("Image", bundles.list[1]) = "false" THEN
                 fail2(<<"Template missing '", "Image", "' field in first bundle">>)
             ELSE IF ~IsMap(bundles.list[1]) THEN other2(BadIndex(bundles.list[1]))
             ELSE LET current_image == bundles.list[1].map.Image
                      would_change == current_image # Str(new_bundle_image)
                  IN  Result(w2,
                             [template_path |-> path,
                              current_image |-> current_image,
                              new_image |-> new_bundle_image,
                              would_change |-> would_change],
                             NoExc)

\* mutant: a render that exits non-zero is only logged
regenerate_catalog_lenient(w, out) ==
    LET w0 == Log(Log(w, "regenerate_catalog"), "opm render-template")
        w1 == IF out.rc = "ok" THEN w0 ELSE Fault(w0)
    IN  IF out.rc = "ok" THEN
            IF ~w.fs.catdir THEN Result(w1, Null, OtherError(<<"FileNotFoundError">>))
            ELSE Result([Log(w1, "write catalog") EXCEPT
                             !.fs.work[output_path] = [text |-> out.stdout]],
                        Null, NoExc)
        ELSE IF out.rc = "error" THEN Result(w1, Null, NoExc)
        ELSE Result(w1, Null, ReleaseError(<<"Catalog generation timed out">>))

\* out is what opm does: [rc |-> "ok", stdout |-> text], [rc |-> "error"],
\* [rc |-> "timeout"]
regenerate_catalog(w, out) ==
    LET w0 == Log(Log(w, "regenerate_catalog"), "opm render-template")
        w1 == IF out.rc = "ok" THEN w0 ELSE Fault(w0)
    IN  IF out.rc = "ok" THEN
            IF ~w.fs.catdir THEN
                \* output_path.write_text raises FileNotFoundError, which
                \* regenerate_catalog does not catch
                Result(w1, Null, OtherError(<<"FileNotFoundError">>))
            ELSE Result([Log(w1, "write catalog") EXCEPT
                             !.fs.work[output_path] = [text |-> out.stdout]],
                        Null, NoExc)
        ELSE IF out.rc = "error" THEN
            Result(w1, Null, ReleaseError(<<"Failed to regenerate catalog">>))
        ELSE Result(w1, Null, ReleaseError(<<"Catalog generation timed out">>))


(***************************************************************************)
(* ReleaseManager.  A run is at run.pc; each operator below performs the   *)
(* part of the method that starts at that point and ends with the next     *)
(* external call, and returns the world, the value and the exception.      *)
(***************************************************************************)
Goto(w, pc) == [w EXCEPT !.run.pc = pc]

\* mutant: a path without version-control metadata is cloned over
validate_and_setup_repositories_repair(w, e) ==
    LET w1 == Log(w, "validate_and_setup_repositories")
    IN  IF w.fs.repo # "git" THEN clone_repository(w1, e.tool, e.remote)
        ELSE Result(w1, Null, NoExc)

validate_and_setup_repositories(w, e) ==
    LET w1 == Log(w, "validate_and_setup_repositories")
    IN  IF w.fs.repo = "absent" THEN clone_repository(w1, e.tool, e.remote)
        ELSE IF w.fs.repo = "nogit" THEN
            Result(w1, Null, ReleaseError(<<"Not a git repository">>))
        ELSE Result(w1, Null, NoExc)

\* mutant: the result of check_repo_clean is not looked at
check_fbc_repo_clean_ignored(w, e) ==
    Try(check_repo_clean(w, e.tool), LAMBDA r : Result(r.w, Null, NoExc))

\* mutant: the check also refuses a repository another run has fetched
\* into since this run started
check_fbc_repo_clean_exclusive(w, e) ==
    Try(check_repo_clean(w, e.tool),
        LAMBDA r :
            IF ~r.ret \/ w.fs.fetches # w.run.start.fetches THEN
                Result(r.w, Null, ReleaseError(<<"FBC repository has uncommitted changes">>))
            ELSE Result(r.w, Null, NoExc))

check_fbc_repo_clean(w, e) ==
    Try(check_repo_clean(w, e.tool),
        LAMBDA r :
            IF ~r.ret THEN
                Result(r.w, Null, ReleaseError(<<"FBC repository has uncommitted changes">>))
            ELSE Result(r.w, Null, NoExc))

\* mutant: every reference is addressed by tag
ImageRef_tag(sep, ref) ==
    <<quay_registry, "/", tenant, "/", bundle_component, ":">> \o ref

\* f"{quay_registry}/{tenant}/{bundle_component}{sep}{ref}"
ImageRef(sep, ref) ==
    <<quay_registry, "/", tenant, "/", bundle_component, sep>> \o ref

get_latest_bundle_sha(w, e) ==
    IF w.run.pc = "resolve_commit" THEN
        Try(get_latest_commit_sha(w, "openshift", "instaslice-operator",
                                  operator_branch, e.resp),
            LAMBDA r :
                Result([Goto(r.w, "resolve_digest") EXCEPT !.run.commit_sha = r.ret],
                       Null, NoExc))
    ELSE
        LET bundle_image == ImageRef(":", w.run.commit_sha)
        IN  Try(get_image_digest(w, bundle_image, e.skopeo),
                LAMBDA r :
                    Result([Goto(r.w, "fetch") EXCEPT !.run.image_digest = r.ret],
                           Null, NoExc))

\* mutant: the dry-run branch is never taken
PreviewOnly_never(dry_run) == FALSE

\* `if dry_run:` of update_fbc_catalog
PreviewOnly(dry_run) == dry_run

update_fbc_catalog(w, e) ==
    LET bundle_image == ImageRef("@", w.run.image_digest)
    IN  IF w.run.pc = "fetch" THEN
            Try(fetch_latest(w, e.tool), LAMBDA r : Result(Goto(r.w, "edit"), Null, NoExc))
        ELSE IF w.run.pc = "edit" THEN
            IF PreviewOnly(w.run.dry_run) THEN
                Try(preview_catalog_update(w, template_path, bundle_image),
                    LAMBDA r :
                        Result([Goto(r.w, "summary") EXCEPT !.run.change_info = r.ret],
                               Null, NoExc))
            ELSE
                Try(update_catalog_template(w, template_path, bundle_image),
                    LAMBDA r : Result(Goto(r.w, "render"), Null, NoExc))
        ELSE
            Try(regenerate_catalog(w, e.opm),
                LAMBDA r :
                    Result([Goto(r.w, "add") EXCEPT !.run.change_info =
                                [template_path |-> template_path,
                                 new_image |-> bundle_image,
                                 files_modified |-> TRUE]],
                           Null, NoExc))

\* mutant: the message is the summary line alone
CommitMessage_summary(commit_sha) ==
    <<"Update ", ocp_version, " catalog with latest instaslice operator bundle">>

\* the message of commit_fbc_changes
CommitMessage(commit_sha) ==
    <<"Update ", ocp_version,
      " catalog with latest instaslice operator bundle", "\n", "\n",
      "Updates the instaslice-operator-bundle-next to commit ">>
    \o commit_sha \o <<" which includes the latest merged fixes.">>

commit_fbc_changes(w, e) ==
    LET files == << <<ocp_version, "catalog-template.yaml">>,
                    <<ocp_version, "catalog", "instaslice-operator", "catalog.json">> >>
        message == CommitMessage(w.run.commit_sha)
    IN  IF w.run.pc = "add" THEN
            Try(git_add(w, files, e.tool), LAMBDA r : Result(Goto(r.w, "commit"), Null, NoExc))
        ELSE
            Try(git_commit(w, message, e.tool),
                LAMBDA r : Result(Goto(r.w, "done"), Null, NoExc))

Terminated(w) == w.run.pc \in {"done", "failed", "checked"}

\* mutant: the failure is logged and the process ends normally
sys_exit_zero(w, exc) ==
    [w EXCEPT !.run.pc = "failed", !.run.exit_code = 0, !.run.exc = exc]

\* mutant: the working tree is restored before the process exits
sys_exit_restore(w, exc) ==
    [w EXCEPT !.run.pc = "failed", !.run.exit_code = 1, !.run.exc = exc,
              !.fs.work = w.fs.head, !.fs.index = w.fs.head]

\* mutant: the except clause logs the error and waits instead of exiting
sys_exit_wait(w, exc) ==
    [w EXCEPT !.run.pc = "waiting", !.run.exit_code = 1, !.run.exc = exc]

\* the except clauses of run_release: log the error, sys.exit(1)
sys_exit(w, exc) ==
    [w EXCEPT !.run.pc = "failed", !.run.exit_code = 1, !.run.exc = exc]

\* mutant: the clean check is made in both modes
NeedsCleanCheck_always(dry_run) == TRUE

\* `if not dry_run:` before the clean check
NeedsCleanCheck(dry_run) == ~dry_run

\* run_release: one step of the try block; both except clauses end in
\* sys.exit(1), normal completion ends the process with exit code 0
run_release(w, e) ==
    LET pc == w.run.pc
        dry_run == w.run.dry_run
        step ==
            CASE pc = "setup" ->
                     Try(validate_and_setup_repositories(w, e),
                         LAMBDA v :
                             Result(Goto(v.w, IF NeedsCleanCheck(dry_run) THEN "clean_check"
                                              ELSE "resolve_commit"), Null, NoExc))
              [] pc = "clean_check" ->
                     Try(check_fbc_repo_clean(w, e),
                         LAMBDA v : Result(Goto(v.w, "resolve_commit"), Null, NoExc))
              [] pc \in {"resolve_commit", "resolve_digest"} -> get_latest_bundle_sha(w, e)
              [] pc \in {"fetch", "edit", "render"} ->
                     Try(update_fbc_catalog(w, e),
                         LAMBDA v :
                             IF v.w.run.pc = "summary"
                             THEN Result(Goto(Log(v.w, "print summary"), "done"), Null, NoExc)
                             ELSE v)
              [] pc \in {"add", "commit"} -> commit_fbc_changes(w, e)
              [] OTHER -> Result(w, Null, NoExc)
    IN  Bind(step,
             LAMBDA r :
                 IF r.exc # NoExc THEN sys_exit(r.w, r.exc)
                 ELSE IF r.w.run.pc = "done" /\ pc # "done" THEN
                     [r.w EXCEPT !.run.exit_code = 0]
                 ELSE r.w)

(***************************************************************************)
(* Inputs: the states the local path can be in when a run starts and what  *)
(* the external tools and services can answer.                             *)
(***************************************************************************)
ValidDigest == Sha256Prefix \o Rep("a", 64)
ShortDigest == Sha256Prefix \o <<"a", "b", "c">>
ValidSha == Rep("c", 40)
ShortSha == <<"a", "b", "c">>

OldImage == <<"quay.io/old/bundle@sha256:old123">>
CurrentImage == ImageRef("@", ValidDigest)

TemplateDoc(bundles) ==
    Map([Schema |-> Str(<<"olm.semver">>),
         GenerateMajorChannels |-> Bool(TRUE),
         Stable |-> Map([Bundles |-> bundles])])

Bundle(img) == Map([Image |-> Str(img)])

ValidDocs ==
    {TemplateDoc(List(<<Bundle(OldImage)>>)),
     TemplateDoc(List(<<Bundle(CurrentImage)>>)),
     Map([Schema |-> Str(<<"olm.semver">>),
          Stable |-> Map([Bundles |-> List(<<Map([Image |-> Str(OldImage),
                                                  Name |-> Str(<<"bundle">>)]),
                                             Bundle(OldImage),
                                             Bundle(CurrentImage)>>),
                          Channel |-> Str(<<"stable">>)]),
          Candidate |-> Map([Bundles |-> List(<<Bundle(OldImage)>>)])])}

InvalidDocs ==
    {Null,
     Map([Schema |-> Str(<<"olm.semver">>)]),
     List(<<Str(<<"Stable">>)>>),
     Map([Stable |-> Null]),
     Map([Stable |-> Map([Candidate |-> Null])]),
     TemplateDoc(List(<<>>)),
     TemplateDoc(Bundle(OldImage)),
     TemplateDoc(List(<<Map([Name |-> Str(<<"bundle">>)])>>)),
     TemplateDoc(List(<<Null>>))}

TemplateFiles ==
    {AbsentFile, File("invalid", Null)}
    \cup {File(fmt, d) : fmt \in {"hand", "block"}, d \in ValidDocs}
    \cup {File("hand", d) : d \in InvalidDocs}

Catalog(t) == [text |-> t]
RenderOutputs == {<<"catalog-a">>, <<"catalog-b">>}

Tree(t, c) == [p \in Paths |-> IF p = template_path THEN t ELSE c]

NoRepo(kind) ==
    [repo |-> kind, work |-> Tree(AbsentFile, AbsentFile),
     index |-> Tree(AbsentFile, AbsentFile), head |-> Tree(AbsentFile, AbsentFile),
     catdir |-> FALSE, other |-> FALSE, log |-> <<>>, fetches |-> 0]

GitRepo(t, c, catdir, other) ==
    [repo |-> "git", work |-> Tree(t, c), index |-> Tree(t, c), head |-> Tree(t, c),
     catdir |-> catdir, other |-> other, log |-> <<>>, fetches |-> 0]

InitFS ==
    {NoRepo("absent"), NoRepo("nogit")}
    \cup {GitRepo(t, Catalog(<<"catalog-a">>), TRUE, o) : t \in TemplateFiles, o \in BOOLEAN}
    \cup {GitRepo(File("hand", TemplateDoc(List(<<Bundle(OldImage)>>))), AbsentFile, d, FALSE) :
              d \in BOOLEAN}

\* what the remote branch holds when it is cloned
Remotes ==
    {Tree(File("hand", TemplateDoc(List(<<Bundle(OldImage)>>))), Catalog(<<"catalog-a">>)),
     Tree(File("block", TemplateDoc(List(<<Bundle(CurrentImage)>>))), Catalog(<<"catalog-a">>))}

BranchJson(sha) == Map([name |-> Str(<<"next">>), commit |-> Map([sha |-> Str(sha)])])

GitHubResponses ==
    {[err |-> "none", body |-> BranchJson(ValidSha)],
     [err |-> "none", body |-> BranchJson(ShortSha)],
     [err |-> "none", body |-> Map([invalid |-> Str(<<"response">>)])],
     [err |-> "none", body |-> Map([commit |-> Map([url |-> Str(<<"u">>)])])],
     [err |-> "none", body |-> Map([commit |-> Null])],
     [err |-> "none", body |-> Invalid],
     [err |-> "none", body |-> List(<<>>)],
     [err |-> "HTTPError", code |-> 404, reason |-> "Not Found"],
     [err |-> "HTTPError", code |-> 403, reason |-> "Forbidden"],
     [err |-> "HTTPError", code |-> 401, reason |-> "Unauthorized"],
     [err |-> "HTTPError", code |-> 500, reason |-> "Internal Server Error"],
     [err |-> "URLError", reason |-> "Name or service not known"],
     [err |-> "TimeoutError", reason |-> "The read operation timed out"]}

SkopeoOutcomes ==
    {[rc |-> "ok", stdout |-> ValidDigest],
     [rc |-> "ok", stdout |-> ValidDigest \o <<"\n">>],
     [rc |-> "ok", stdout |-> ShortDigest \o <<"\n">>],
     [rc |-> "ok", stdout |-> <<"i", "n", "v", "a", "l", "i", "d">>],
     [rc |-> "ok", stdout |-> <<"\n">>],
     [rc |-> "ok", stdout |-> <<" ">> \o ShortDigest \o <<"\n">>],
     [rc |-> "ok", stdout |-> <<"s", "h", "a", "5", "1", "2", ":", "a", "b", "\n">>],
     [rc |-> "error"],
     [rc |-> "timeout"]}

OpmOutcomes ==
    {[rc |-> "ok", stdout |-> t] : t \in RenderOutputs}
    \cup {[rc |-> "error"], [rc |-> "timeout"]}

\* what `opm version` prints for a version text
OpmStdout(version) ==
    <<"Version: version.Version{", OpmVersionKey>> \o version
    \o <<"\"", ", GitCommit:\"", "a", "b", "c", "\"", "}">>

\* '1.47.0' as the characters of the text
Chars(major, minor, patch) == major \o <<".">> \o minor \o <<".">> \o patch

OpmVersionOutcomes ==
    {[rc |-> "ok", stdout |-> OpmStdout(<<"v">> \o Chars(<<"1">>, <<"4", "7">>, <<"0">>))],
     [rc |-> "ok", stdout |-> OpmStdout(Chars(<<"1">>, <<"1", "0", "0">>, <<"0">>))],
     [rc |-> "ok", stdout |-> OpmStdout(Chars(<<"1">>, <<"4", "6">>, <<"9">>))],
     [rc |-> "ok", stdout |-> OpmStdout(Chars(<<"1">>, <<>>, <<"4", "7">>))],
     [rc |-> "ok", stdout |-> <<"opm">>],
     [rc |-> "error"], [rc |-> "timeout"], [rc |-> "FileNotFoundError"]}

\* the second invocation answers as the first did, or otherwise
OpmVersionAgain ==
    {[rc |-> "ok", stdout |-> OpmStdout(Chars(<<"1">>, <<"4", "6">>, <<"9">>))]}

\* the decimal digits of a natural number
RECURSIVE IntChars(_)
IntChars(n) ==
    IF n < 10 THEN <<Digits[n + 1]>>
    ELSE IntChars(n \div 10) \o <<Digits[(n % 10) + 1]>>

\* the components of a version joined by '.'
RECURSIVE Join(_)
Join(t) ==
    IF Len(t) = 1 THEN IntChars(t[1])
    ELSE IntChars(t[1]) \o <<".">> \o Join(Tail(t))

\* the versions of opm a machine may have
VersionTuples ==
    {<<a, b, c>> : a \in {0, 1, 2}, b \in {0, 46, 47, 48, 100}, c \in {0, 1, 9}}
    \cup {<<1>>, <<2>>, <<1, 47>>, <<1, 48>>, <<1, 46, 9, 9>>, <<1, 47, 0, 1>>}

\* texts in the place of the version that are not numbers joined by '.'
GarbledVersions ==
    {<<"1", ".", ".", "4", "7">>, <<"1", ".", "4", "7", ".">>, <<".">>,
     <<"1", ".", "4", "8", ".", "0", "-", "r", "c", "1">>, <<"l", "a", "t", "e", "s", "t">>}

\* the opm of a machine: a version (printed with or without 'v'), a garbled
\* text, an output without the key, or an invocation that fails
Installed ==
    {[kind |-> "version", tuple |-> t, v |-> b, text |-> <<>>] :
         t \in VersionTuples, b \in BOOLEAN}
    \cup {[kind |-> "garbled", tuple |-> <<>>, v |-> FALSE, text |-> g] : g \in GarbledVersions}
    \cup {[kind |-> k, tuple |-> <<>>, v |-> FALSE, text |-> <<>>] :
              k \in {"nokey", "error", "timeout", "FileNotFoundError"}}

\* what `opm version` does on that machine
OpmOut(i) ==
    IF i.kind = "version" THEN
        [rc |-> "ok", stdout |-> OpmStdout((IF i.v THEN <<"v">> ELSE <<>>) \o Join(i.tuple))]
    ELSE IF i.kind = "garbled" THEN [rc |-> "ok", stdout |-> OpmStdout(i.text)]
    ELSE IF i.kind = "nokey" THEN [rc |-> "ok", stdout |-> <<"opm">>]
    ELSE [rc |-> i.kind]

\* the minimum versions asked of check_opm_version
Required == {<<1, 47, 0>>, <<1, 47>>, <<2, 0, 0>>}

\* a machine the dependency check runs on: the opm installed, what the
\* probes answer, the minimum version asked for and the answer of
\* check_opm_version ("none" before it is called)
MachineStates ==
    UNION {{[installed |-> i, required |-> r, result |-> "none",
             pre |-> [which |-> TRUE, found |-> f, opm |-> <<OpmOut(i), o2>>, yaml |-> y]] :
                r \in Required, f \in SUBSET {"git", "skopeo", "opm"},
                o2 \in {OpmOut(i)} \cup OpmVersionAgain, y \in BOOLEAN} :
           i \in Installed}

NoMachine ==
    [installed |-> [kind |-> "nokey", tuple |-> <<>>, v |-> FALSE, text |-> <<>>],
     required |-> <<>>, result |-> "none",
     pre |-> [which |-> FALSE, found |-> {}, opm |-> <<[rc |-> "error"], [rc |-> "error"]>>,
              yaml |-> FALSE]]

\* `opm version` is not run when `which opm` does not find it
PreflightEnvs ==
    {[which |-> FALSE, found |-> {}, opm |-> <<[rc |-> "error"], [rc |-> "error"]>>,
      yaml |-> TRUE]}
    \cup {[which |-> TRUE, found |-> f, opm |-> <<[rc |-> "error"], [rc |-> "error"]>>,
           yaml |-> y] : f \in SUBSET {"git", "skopeo"}, y \in BOOLEAN}
    \cup UNION {{[which |-> TRUE, found |-> f \cup {"opm"}, opm |-> <<o1, o2>>, yaml |-> y] :
                     f \in SUBSET {"git", "skopeo"},
                     o2 \in {o1} \cup OpmVersionAgain, y \in BOOLEAN} :
                 o1 \in OpmVersionOutcomes}

\* the environment's answer to the external call made at pc
DefaultEnv ==
    [tool |-> "ok", remote |-> Tree(AbsentFile, AbsentFile),
     resp |-> [err |-> "URLError", reason |-> "unreachable"], skopeo |-> [rc |-> "error"], opm |-> [rc |-> "error"]]

EnvFor(pc) ==
    CASE pc = "setup" ->
             {[DefaultEnv EXCEPT !.tool = t, !.remote = r] : t \in ToolOutcomes, r \in Remotes}
      [] pc \in {"clean_check", "fetch", "add", "commit"} ->
             {[DefaultEnv EXCEPT !.tool = t] : t \in ToolOutcomes}
      [] pc = "resolve_commit" -> {[DefaultEnv EXCEPT !.resp = r] : r \in GitHubResponses}
      [] pc = "resolve_digest" -> {[DefaultEnv EXCEPT !.skopeo = o] : o \in SkopeoOutcomes}
      [] pc = "render" -> {[DefaultEnv EXCEPT !.opm = o] : o \in OpmOutcomes}
      [] OTHER -> {DefaultEnv}

(***************************************************************************)
(* State machine.                                                          *)
(***************************************************************************)
\* the process as main() starts it: run number n, --dry-run flag d, on disk f
NewRun(n, d, f) ==
    [pc |-> "main", dry_run |-> d, commit_sha |-> <<>>, image_digest |-> <<>>,
     inspected |-> <<>>, returned_sha |-> <<>>, returned_digest |-> <<>>,
     candidate |-> <<>>, probes |-> <<>>, current_image |-> Null, change_info |-> Null, exit_code |-> -1, exc |-> NoExc,
     calls |-> <<>>, fault |-> FALSE, start |-> f, n |-> n,
     deps_ok |-> "unknown", missing |-> <<>>]

World == [fs |-> fs, run |-> run]

NoTwin == [fs |-> NoRepo("absent"), run |-> NewRun(0, TRUE, NoRepo("absent"))]

Init ==
    /\ fs \in InitFS
    /\ \E d \in BOOLEAN : run = NewRun(1, d, fs)
    /\ twin = NoTwin
    /\ machine = NoMachine

\* mutant: the result of the dependency check is only logged
main_ungated(w, pre, check_deps) ==
    Bind(check_all_dependencies(pre),
         LAMBDA d :
             LET w1 == Log(w, "check_all_dependencies")
             IN  IF d.exc # NoExc THEN
                     [Fault(w1) EXCEPT !.run.pc = "failed", !.run.exit_code = 1,
                                       !.run.exc = d.exc, !.run.deps_ok = "raised",
                                       !.run.probes = d.ret.probes]
                 ELSE Goto([w1 EXCEPT !.run.deps_ok = IF d.ret.ok THEN "true" ELSE "false",
                                      !.run.missing = d.ret.missing,
                                      !.run.probes = d.ret.probes],
                           "setup"))

\* main(): the dependency check gates the run; an exception of the check
\* is not caught and ends the process with a traceback (exit code 1);
\* --check-deps ends the process after the check
main(w, pre, check_deps) ==
    Bind(check_all_dependencies(pre),
         LAMBDA d :
             LET w1 == Log(w, "check_all_dependencies")
             IN  IF d.exc # NoExc THEN
                     [Fault(w1) EXCEPT !.run.pc = "failed", !.run.exit_code = 1,
                                       !.run.exc = d.exc, !.run.deps_ok = "raised",
                                       !.run.probes = d.ret.probes]
                 ELSE IF ~d.ret.ok THEN
                     [Fault(w1) EXCEPT !.run.pc = "failed", !.run.exit_code = 1,
                                       !.run.deps_ok = "false",
                                       !.run.missing = d.ret.missing,
                                       !.run.probes = d.ret.probes]
                 ELSE IF check_deps THEN
                     [w1 EXCEPT !.run.pc = "checked", !.run.exit_code = 0,
                                !.run.deps_ok = "true", !.run.missing = d.ret.missing,
                                !.run.probes = d.ret.probes]
                 ELSE Goto([w1 EXCEPT !.run.deps_ok = "true", !.run.missing = d.ret.missing,
                                      !.run.probes = d.ret.probes], "setup"))

Step(w) == \E n \in {w} : fs' = n.fs /\ run' = n.run /\ UNCHANGED <<twin, machine>>

Main ==
    /\ run.pc = "main"
    /\ \E pre \in PreflightEnvs, check_deps \in BOOLEAN :
           Step(main(World, pre, check_deps))

Setup ==
    /\ run.pc = "setup"
    /\ \E e \in EnvFor("setup") : Step(run_release(World, e))

CleanCheck ==
    /\ run.pc = "clean_check"
    /\ \E e \in EnvFor("clean_check") : Step(run_release(World, e))

ResolveCommit ==
    /\ run.pc = "resolve_commit"
    /\ \E e \in EnvFor("resolve_commit") : Step(run_release(World, e))

ResolveDigest ==
    /\ run.pc = "resolve_digest"
    /\ \E e \in EnvFor("resolve_digest") : Step(run_release(World, e))

Fetch ==
    /\ run.pc = "fetch"
    /\ \E e \in EnvFor("fetch") : Step(run_release(World, e))

EditTemplate ==
    /\ run.pc = "edit"
    /\ \E e \in EnvFor("edit") : Step(run_release(World, e))

Render ==
    /\ run.pc = "render"
    /\ \E e \in EnvFor("render") : Step(run_release(World, e))

GitAdd ==
    /\ run.pc = "add"
    /\ \E e \in EnvFor("add") : Step(run_release(World, e))

GitCommit ==
    /\ run.pc = "commit"
    /\ \E e \in EnvFor("commit") : Step(run_release(World, e))

\* the operator starts the tool again on the same path
Restart ==
    /\ Terminated(World)
    /\ run.n < MaxRuns
    /\ \E d \in BOOLEAN : run' = NewRun(run.n + 1, d, fs)
    /\ UNCHANGED <<fs, twin, machine>>

Next ==
    \/ Main
    \/ Setup
    \/ CleanCheck
    \/ ResolveCommit
    \/ ResolveDigest
    \/ Fetch
    \/ EditTemplate
    \/ Render
    \/ GitAdd
    \/ GitCommit
    \/ Restart

Spec == Init /\ [][Next]_vars

\* the process takes its next step
RunStep ==
    \/ Main
    \/ Setup
    \/ CleanCheck
    \/ ResolveCommit
    \/ ResolveDigest
    \/ Fetch
    \/ EditTemplate
    \/ Render
    \/ GitAdd
    \/ GitCommit

\* the repositories of the runs followed to their end: none, a directory
\* that is no repository, and repositories that are clean or dirty, with a
\* template that is valid, up to date, absent or without bundles, with or
\* without the catalog directory
LiveRepos ==
    {NoRepo("absent"), NoRepo("nogit")}
    \cup {GitRepo(File("hand", TemplateDoc(List(<<Bundle(OldImage)>>))),
                  Catalog(<<"catalog-a">>), TRUE, o) : o \in BOOLEAN}
    \cup {GitRepo(t, Catalog(<<"catalog-a">>), TRUE, FALSE) :
              t \in {File("block", TemplateDoc(List(<<Bundle(CurrentImage)>>))),
                     File("hand", TemplateDoc(List(<<>>))),
                     AbsentFile}}
    \cup {GitRepo(File("hand", TemplateDoc(List(<<Bundle(OldImage)>>))), AbsentFile,
                  FALSE, FALSE)}

LiveInit ==
    /\ Init
    /\ fs \in LiveRepos

\* One run under the condition that every external call returns or
\* reaches its timeout: the step the run is at is eventually taken (the
\* process is sequential and every step makes a bounded number of calls).
SpecLive == LiveInit /\ [][RunStep]_vars /\ WF_vars(RunStep)

(***************************************************************************)
(* The dependency check on its own: every machine, one run of main() and   *)
(* one call of check_opm_version.                                          *)
(***************************************************************************)
PreflightInit ==
    /\ fs = NoRepo("absent")
    /\ run = NewRun(1, TRUE, fs)
    /\ twin = NoTwin
    /\ machine \in MachineStates

Preflight ==
    /\ run.pc = "main"
    /\ \E check_deps \in BOOLEAN : Step(main(World, machine.pre, check_deps))

CheckVersion ==
    /\ machine.result = "none"
    /\ \E b \in {check_opm_version(get_opm_version(machine.pre.opm[1]),
                                     Join(machine.required))} :
           machine' = [machine EXCEPT !.result = IF b THEN "true" ELSE "false"]
    /\ UNCHANGED <<fs, run, twin>>

PreflightNext ==
    \/ Preflight
    \/ CheckVersion

SpecPreflight == PreflightInit /\ [][PreflightNext]_vars


(***************************************************************************)
(* Two dry runs in lockstep on two copies of the path that differ only in  *)
(* pending changes; both get the same answers from the environment.        *)
(***************************************************************************)
DirtyVariants(f) ==
    IF f.repo # "git" THEN {f}
    ELSE {[f EXCEPT !.other = b] : b \in BOOLEAN}
         \cup {[f EXCEPT !.index = Tree(File("hand", Null), f.work[output_path]),
                         !.head = Tree(File("hand", Null), f.work[output_path])]}

TwinInit ==
    /\ fs \in InitFS
    /\ run = [NewRun(1, TRUE, fs) EXCEPT !.pc = "setup", !.deps_ok = "true",
                                         !.calls = <<"check_all_dependencies">>]
    /\ \E v \in DirtyVariants(fs) :
           twin = [fs |-> v, run |-> [run EXCEPT !.start = v]]
    /\ machine = NoMachine

TwinStep ==
    /\ ~(Terminated(World) /\ Terminated(twin))
    /\ \E e \in EnvFor(run.pc) \cup EnvFor(twin.run.pc) :
           \E a \in {run_release(World, e)} :
               /\ fs' = a.fs
               /\ run' = a.run
               /\ twin' = run_release(twin, e)
               /\ UNCHANGED machine

TwinNext == TwinStep

SpecTwin == TwinInit /\ [][TwinNext]_vars

(***************************************************************************)
(* Two processes started on the same local path: run and twin.run are the  *)
(* two runs, fs is the one repository both work on (twin.fs follows it).   *)
(* A step of a process is one step of run_release; the steps of the two    *)
(* interleave.                                                             *)
(***************************************************************************)
PairInit ==
    /\ fs = GitRepo(File("hand", TemplateDoc(List(<<Bundle(OldImage)>>))),
                    Catalog(<<"catalog-a">>), TRUE, FALSE)
    /\ run = [NewRun(1, FALSE, fs) EXCEPT !.pc = "setup", !.deps_ok = "true",
                                          !.calls = <<"check_all_dependencies">>]
    /\ twin = [fs |-> fs, run |-> [run EXCEPT !.n = 2]]
    /\ machine = NoMachine

PairStepRun ==
    /\ ~Terminated(World)
    /\ \E e \in EnvFor(run.pc) :
           \E a \in {run_release(World, e)} :
               /\ fs' = a.fs
               /\ run' = a.run
               /\ twin' = [twin EXCEPT !.fs = a.fs]
    /\ UNCHANGED machine

PairStepTwin ==
    /\ ~Terminated(twin)
    /\ \E e \in EnvFor(twin.run.pc) :
           \E a \in {run_release(twin, e)} :
               /\ fs' = a.fs
               /\ twin' = a
    /\ UNCHANGED <<run, machine>>

PairNext ==
    \/ PairStepRun
    \/ PairStepTwin

SpecPair == PairInit /\ [][PairNext]_vars


(***************************************************************************)
(* Vocabulary of the properties.                                           *)
(***************************************************************************)
Called(ev) == ev \in Range(run.calls)

\* the working tree has pending changes, tracked or untracked
Pending(f) == f.other \/ f.work # f.index \/ f.index # f.head

\* the template has the shape Stable.Bundles[0].Image
HasImage(f) ==
    /\ exists(f)
    /\ f.fmt # "invalid"
    /\ IsMap(f.doc)
    /\ "Stable" \in DOMAIN f.doc.map
    /\ IsMap(f.doc.map.Stable)
    /\ "Bundles" \in DOMAIN f.doc.map.Stable.map
    /\ IsList(f.doc.map.Stable.map.Bundles)
    /\ f.doc.map.Stable.map.Bundles.list # <<>>
    /\ IsMap(f.doc.map.Stable.map.Bundles.list[1])
    /\ "Image" \in DOMAIN f.doc.map.Stable.map.Bundles.list[1].map

StoredImage(f) == f.doc.map.Stable.map.Bundles.list[1].map.Image

\* the candidate image of the run
Candidate == ImageRef("@", run.image_digest)

\* documents d and d2 agree on every key and value but Stable.Bundles[0].Image
SameButImage(d, d2) ==
    LET st == d.map.Stable.map
        st2 == d2.map.Stable.map
        b == st.Bundles.list
        b2 == st2.Bundles.list
    IN  /\ DOMAIN d2.map = DOMAIN d.map
        /\ \A k \in DOMAIN d.map \ {"Stable"} : d2.map[k] = d.map[k]
        /\ DOMAIN st2 = DOMAIN st
        /\ \A k \in DOMAIN st \ {"Bundles"} : st2[k] = st[k]
        /\ Len(b2) = Len(b)
        /\ \A i \in 2..Len(b) : b2[i] = b[i]
        /\ DOMAIN b2[1].map = DOMAIN b[1].map
        /\ \A k \in DOMAIN b[1].map \ {"Image"} : b2[1].map[k] = b[1].map[k]

\* 'sha256:' followed by 64 hexadecimal characters
WellFormedDigest(d) ==
    /\ Len(d) = Len(Sha256Prefix) + 64
    /\ startswith(d, Sha256Prefix)
    /\ \A i \in (Len(Sha256Prefix) + 1)..Len(d) : d[i] \in HexChars

\* 40 hexadecimal characters
WellFormedSha(s) == Len(s) = 40 /\ \A i \in DOMAIN s : s[i] \in HexChars

\* the number of times ev occurs in the call history cs
Count(cs, ev) == Cardinality({i \in DOMAIN cs : cs[i] = ev})

\* the events a call history gained, as a sequence
Gained(cs, cs2) == SubSeq(cs2, Len(cs) + 1, Len(cs2))

\* the steps of an apply run, in the order of run_release
StepOrder ==
    <<"validate_and_setup_repositories", "check_repo_clean", "get_latest_commit_sha",
      "get_image_digest", "update_catalog_template", "regenerate_catalog",
      "commit_changes">>

IsStep(ev) == ev \in Range(StepOrder)

\* the steps started so far in the run, in the order they were started
StepsStarted == SelectSeq(run.calls, IsStep)

\* the external operations of the workflow
ExternalOps ==
    {"GET branches", "skopeo inspect", "git clone", "git status", "git fetch",
     "opm render-template", "git add", "git commit"}

\* what the step at pc may invoke
StepEvents(pc) ==
    CASE pc = "main" -> {"check_all_dependencies"}
      [] pc = "setup" -> {"validate_and_setup_repositories", "clone_repository", "git clone"}
      [] pc = "clean_check" -> {"check_repo_clean", "git status"}
      [] pc = "resolve_commit" -> {"get_latest_commit_sha", "GET branches"}
      [] pc = "resolve_digest" -> {"get_image_digest", "skopeo inspect"}
      [] pc = "fetch" -> {"fetch_latest", "git fetch"}
      [] pc = "edit" -> {"preview_catalog_update", "update_catalog_template",
                         "read template"}
      [] pc = "render" -> {"regenerate_catalog", "opm render-template"}
      [] pc = "add" -> {"commit_changes", "git add"}
      [] pc = "commit" -> {"git commit"}
      [] OTHER -> {}

\* the way a template falls short of the shape Stable.Bundles[0].Image
Shortfall(f) ==
    IF ~exists(f) \/ f.fmt = "invalid" THEN "other"
    ELSE IF ~(IsMap(f.doc) /\ "Stable" \in DOMAIN f.doc.map) THEN "no Stable"
    ELSE IF ~(IsMap(f.doc.map.Stable) /\ "Bundles" \in DOMAIN f.doc.map.Stable.map)
         THEN "no Bundles"
    ELSE IF f.doc.map.Stable.map.Bundles = List(<<>>) THEN "empty Bundles"
    ELSE "other"

\* the section a shortfall is about
Section(shortfall) == IF shortfall = "no Stable" THEN "Stable" ELSE "Bundles"

(***************************************************************************)
(* C1: a dry run performs no clone, fetch, template write, catalog write   *)
(* or commit, and when it ends the on-disk state is the state it started   *)
(* from.                                                                   *)
(***************************************************************************)
C1_DryRunLeavesDiskUntouched ==
    run.dry_run =>
        /\ ~Called("git clone")
        /\ ~Called("git fetch")
        /\ ~Called("write template")
        /\ ~Called("write catalog")
        /\ ~Called("git commit")
        /\ (Terminated(World) => fs = run.start)

C3_DirtyApplyAborts ==
    (~run.dry_run /\ run.pc # "checked" /\ run.start.repo = "git" /\ Pending(run.start)) =>
        /\ run.pc \in {"main", "setup", "clean_check", "failed"}
        /\ ~Called("write template") /\ ~Called("write catalog")
        /\ ~Called("git add") /\ ~Called("git commit")
        /\ ~Called("get_latest_commit_sha") /\ ~Called("GET branches")
        /\ ~Called("get_image_digest") /\ ~Called("skopeo inspect")
        /\ fs = run.start
        /\ (Terminated(World) => run.exit_code = 1)

C3_Witness ==
    /\ ~run.dry_run
    /\ run.start.repo = "git"
    /\ Pending(run.start)
    /\ run.pc = "failed"
    /\ run.exit_code = 1
    /\ Len(run.calls) > 0
    /\ run.calls[Len(run.calls)] = "git status"
    /\ run.exc = ReleaseError(<<"FBC repository has uncommitted changes">>)

(***************************************************************************)
(* C4: two dry runs that differ only in whether the working tree has       *)
(* pending changes make the same steps and end with the same change report *)
(* and the same exit status (checked on the lockstep pair of SpecTwin).    *)
(***************************************************************************)
C4_DryRunIgnoresCleanliness ==
    /\ twin.run.pc = run.pc
    /\ twin.run.calls = run.calls
    /\ twin.run.change_info = run.change_info
    /\ twin.run.exit_code = run.exit_code
    /\ twin.run.exc = run.exc

C4_Witness ==
    /\ run.dry_run /\ twin.run.dry_run
    /\ Pending(fs) # Pending(twin.fs)
    /\ fs.work = twin.fs.work
    /\ run.pc = "done" /\ twin.run.pc = "done"
    /\ run.change_info # Null
    /\ run.exit_code = 0

C6_ApplyNoOpWhenCurrent ==
    [][/\ (/\ run.pc = "edit"
           /\ ~run.dry_run
           /\ HasImage(fs.work[template_path])
           /\ StoredImage(fs.work[template_path]) = Str(Candidate))
          => fs'.work[template_path] = fs.work[template_path]
       /\ (/\ run.pc = "render"
           /\ run'.pc = "add"
           /\ run.current_image = Str(Candidate))
          => ~run'.change_info.files_modified]_vars

(***************************************************************************)
(* C7: an apply run started on a clean repository whose template already   *)
(* holds the candidate image ends with exit code 0 and leaves the          *)
(* repository content as it was (no external call failing on its own).     *)
(***************************************************************************)
C7_RerunIsNoOp ==
    (/\ ~run.dry_run
     /\ Terminated(World)
     /\ ~run.fault
     /\ run.start.repo = "git"
     /\ ~Pending(run.start)
     /\ exists(run.start.work[output_path])
     /\ HasImage(run.start.work[template_path])
     /\ StoredImage(run.start.work[template_path]) = Str(Candidate))
    => /\ run.exit_code = 0
       /\ fs.work = run.start.work
       /\ fs.head = run.start.head
       /\ fs.log = run.start.log

(***************************************************************************)
(* C8: preview_catalog_update writes nothing: across the preview step of a *)
(* dry run, for every state of the template, the whole on-disk state is    *)
(* unchanged, whether the preview returns a report or raises.              *)
(***************************************************************************)
C8_PreviewNeverWrites ==
    [][(run.pc = "edit" /\ run.dry_run) => fs' = fs]_vars

C8_Witness ==
    /\ run.dry_run
    /\ Called("preview_catalog_update")
    /\ run.pc = "failed"
    /\ run.exc = ReleaseError(<<"Template has empty or invalid ", "Bundles", " list">>)
    /\ fs.work = run.start.work

(***************************************************************************)
(* C9: for every template and candidate, the preview reports               *)
(* would_change = true exactly when the apply path on the same template    *)
(* and candidate modifies the template file.                               *)
(***************************************************************************)
C9_PreviewMatchesApply ==
    run.pc = "edit" =>
        LET p == preview_catalog_update(World, template_path, Candidate)
            u == update_catalog_template(World, template_path, Candidate)
        IN  p.exc = NoExc =>
                (p.ret.would_change <=>
                     u.w.fs.work[template_path] # fs.work[template_path])

(***************************************************************************)
(* C10: a digest that is not 'sha256:' followed by 64 hexadecimal          *)
(* characters is rejected before the digest-addressed reference is built:  *)
(* the run never gets past digest resolution with such a digest, and no    *)
(* template edit uses one.                                                 *)
(***************************************************************************)
C10_MalformedDigestRejected ==
    /\ run.pc \in {"fetch", "edit", "render", "add", "commit", "done"}
           => WellFormedDigest(run.image_digest)
    /\ (Called("preview_catalog_update") \/ Called("update_catalog_template"))
           => WellFormedDigest(run.image_digest)

(***************************************************************************)
(* C11: the digest resolver is only ever invoked in a run whose resolved   *)
(* commit identifier is 40 hexadecimal characters: any other value aborts  *)
(* the run before the tag-addressed reference is built and inspected.      *)
(***************************************************************************)
C11_MalformedCommitRejected ==
    Called("get_image_digest") => WellFormedSha(run.commit_sha)

(***************************************************************************)
(* C12: on a template without the Stable section, without the Bundles      *)
(* list, or with an empty Bundles list, preview and apply both raise a     *)
(* release error whose text names that section, and the error differs from *)
(* the error raised for a template with another of the three shortfalls.   *)
(***************************************************************************)
C12_MissingSectionsNamed ==
    (run.pc = "edit" /\ Shortfall(fs.work[template_path]) # "other") =>
        LET kind == Shortfall(fs.work[template_path])
            p == preview_catalog_update(World, template_path, Candidate).exc
            u == update_catalog_template(World, template_path, Candidate).exc
            on(g) == [World EXCEPT !.fs.work[template_path] = g]
        IN  /\ p.type = "ReleaseError" /\ u.type = "ReleaseError"
            /\ Section(kind) \in Range(p.msg) /\ Section(kind) \in Range(u.msg)
            /\ \A g \in TemplateFiles :
                   Shortfall(g) \notin {"other", kind} =>
                       /\ preview_catalog_update(on(g), template_path, Candidate).exc # p
                       /\ update_catalog_template(on(g), template_path, Candidate).exc # u

(***************************************************************************)
(* C13: the step that fails is the last step of its run and nothing is     *)
(* undone: the failing step invokes only its own operations, it leaves the *)
(* on-disk state as the steps before it made it, the process exits with 1, *)
(* and after the failure the run does nothing more (the next thing that    *)
(* can happen is a new run on the same, unchanged, disk).                  *)
(***************************************************************************)
C13_FailFastNoCompensation ==
    [][/\ (run.pc # "failed" /\ run'.pc = "failed") =>
              /\ run'.n = run.n
              /\ run'.exit_code = 1
              /\ fs' = fs
              /\ SubSeq(run'.calls, 1, Len(run.calls)) = run.calls
              /\ Range(Gained(run.calls, run'.calls)) \subseteq StepEvents(run.pc)
       /\ run.pc = "failed" =>
              /\ run'.n = run.n + 1
              /\ run'.pc = "main"
              /\ fs' = fs]_vars

C13_Witness ==
    /\ ~run.dry_run
    /\ run.pc = "failed"
    /\ run.start.repo = "absent"
    /\ fs.repo = "git"
    /\ Called("write template")
    /\ Called("opm render-template")
    /\ ~Called("write catalog")
    /\ run.exc = ReleaseError(<<"Failed to regenerate catalog">>)
    /\ fs.work[template_path] # fs.head[template_path]
    /\ fs.work[template_path] # run.start.work[template_path]

(***************************************************************************)
(* C14: in an apply run the steps started so far are always an initial     *)
(* part of the fixed order repository-ready, clean check, resolve commit,  *)
(* resolve digest, edit template, render, commit (so none is started twice *)
(* and none after a later one); render is started only after the template  *)
(* was written, commit only after the catalog was written, and the run is  *)
(* done only when all seven were started and the commit was made.          *)
(***************************************************************************)
C14_ApplyStepsInOrder ==
    (~run.dry_run /\ run.pc # "checked") =>
        /\ StepsStarted = SubSeq(StepOrder, 1, Len(StepsStarted))
        /\ Called("regenerate_catalog") =>
               /\ Called("write template")
               /\ run.pc \in {"render", "add", "commit", "done", "failed"}
        /\ Called("commit_changes") =>
               /\ Called("write catalog")
               /\ run.pc \in {"add", "commit", "done", "failed"}
        /\ run.pc = "done" =>
               /\ StepsStarted = StepOrder
               /\ Called("git commit")
               /\ Len(fs.log) = Len(run.start.log) + 1

C14_Witness ==
    /\ ~run.dry_run
    /\ run.pc = "done"
    /\ StepsStarted = StepOrder
    /\ run.calls[Len(run.calls)] = "git commit"
    /\ fs.head[template_path] # run.start.head[template_path]
    /\ fs.head[output_path] # run.start.head[output_path]

(***************************************************************************)
(* C15: every operation of the workflow is invoked only in a process whose *)
(* preflight check returned ok = true; when the check returned ok = false  *)
(* (or raised) the process has exit code 1, has invoked nothing but the    *)
(* check and has left the disk as it was.                                  *)
(***************************************************************************)
C15_PreflightGatesRun ==
    /\ (\E i \in DOMAIN run.calls : run.calls[i] # "check_all_dependencies")
           => run.deps_ok = "true"
    /\ run.pc \notin {"main", "failed", "checked"} => run.deps_ok = "true"
    /\ run.deps_ok \in {"false", "raised"} =>
           /\ run.pc = "failed"
           /\ run.exit_code = 1
           /\ run.calls = <<"check_all_dependencies">>
           /\ fs = run.start

C15_Witness ==
    /\ run.deps_ok = "false"
    /\ run.pc = "failed"
    /\ run.exit_code = 1
    /\ Len(run.missing) = 2
    /\ run.start.repo = "absent"
    /\ fs.repo = "absent"

(***************************************************************************)
(* C16: a release run ends with exit code 0 only when every step of its    *)
(* mode completed (preview: the change report was produced and shown;      *)
(* apply: template written, catalog written, commit made), and with exit   *)
(* code 1 whenever a step raised, whatever the exception; a process that   *)
(* has ended has exit code 0 or 1 and one that failed never has 0.         *)
(***************************************************************************)
C16_NoPartialSuccess ==
    /\ Terminated(World) <=> run.exit_code \in {0, 1}
    /\ (run.exit_code = 0 /\ run.pc # "checked") =>
           /\ run.pc = "done"
           /\ run.exc = NoExc
           /\ ~run.fault
           /\ run.dry_run =>
                  /\ run.change_info # Null
                  /\ Called("preview_catalog_update")
                  /\ run.calls[Len(run.calls)] = "print summary"
           /\ ~run.dry_run =>
                  /\ StepsStarted = StepOrder
                  /\ Called("write template")
                  /\ Called("write catalog")
                  /\ Len(fs.log) = Len(run.start.log) + 1
                  /\ fs.head = fs.work
    /\ (run.exc # NoExc \/ run.fault \/ run.pc = "failed") =>
           /\ run.pc = "failed"
           /\ run.exit_code = 1

C16_Witness ==
    /\ ~run.dry_run
    /\ run.pc = "failed"
    /\ run.exit_code = 1
    /\ run.exc = OtherError(<<"FileNotFoundError">>)
    /\ Called("write template")
    /\ ~Called("write catalog")

(***************************************************************************)
(* C17: within one run each external operation of the workflow (the        *)
(* branch-metadata GET, the registry inspection, clone, status, fetch,     *)
(* render, add, commit) is issued at most once, and once one of them has   *)
(* failed or timed out the run issues nothing more.                        *)
(***************************************************************************)
C17_NothingRetried ==
    /\ \A op \in ExternalOps : Count(run.calls, op) <= 1
    /\ run.fault /\ run.deps_ok = "true" =>
           /\ run.pc = "failed"
           /\ run.calls[Len(run.calls)] \in ExternalOps

C17_Witness ==
    /\ run.pc = "failed"
    /\ run.fault
    /\ run.exc = ReleaseError(<<"Image inspection timed out">>)
    /\ Count(run.calls, "skopeo inspect") = 1
    /\ Count(run.calls, "GET branches") = 1
    /\ run.calls[Len(run.calls)] = "skopeo inspect"

(***************************************************************************)
(* C18: commit_changes first stages the named files (the two files of the  *)
(* release, nothing else) and then commits, as two invocations in that     *)
(* order; when the staging invocation fails, by a non-zero exit or by its  *)
(* timeout, no commit invocation is issued and a release error is raised.  *)
(***************************************************************************)
C18_StageThenCommit ==
    [][/\ run.pc = "add" =>
              /\ Gained(run.calls, run'.calls) = <<"commit_changes", "git add">>
              /\ \/ /\ run'.pc = "commit"
                    /\ fs'.index = fs.work
                    /\ fs' = [fs EXCEPT !.index = fs.work]
                 \/ /\ run'.pc = "failed"
                    /\ run'.exc.type = "ReleaseError"
                    /\ fs' = fs
       /\ run.pc = "commit" =>
              /\ Gained(run.calls, run'.calls) = <<"git commit">>
              /\ run.calls[Len(run.calls)] = "git add"]_vars

(***************************************************************************)
(* C19: check_repo_clean returns true exactly when the working tree has no *)
(* pending change, tracked or untracked, and false otherwise; when the     *)
(* status invocation itself fails, by a non-zero exit or by its timeout,   *)
(* the outcome is a release error and never a returned value.              *)
(***************************************************************************)
C19_CleanIffNoPendingChanges ==
    run.pc = "clean_check" =>
        \A out \in ToolOutcomes :
            LET r == check_repo_clean(World, out)
            IN  IF out = "ok"
                THEN r.exc = NoExc /\ (r.ret <=> ~Pending(fs))
                ELSE r.exc.type = "ReleaseError"

(***************************************************************************)
(* C20: validate_and_setup_repositories clones the remote into a path that *)
(* does not exist, once; clones nothing and changes nothing when the path  *)
(* is a repository; and on a path without version-control metadata raises  *)
(* the release error 'Not a git repository' with nothing cloned or         *)
(* changed.  Over the whole run a clone is issued at most once, and only   *)
(* in a run started on an absent path.                                     *)
(***************************************************************************)
C20_EnsureReady ==
    [][/\ (run.pc = "setup" /\ fs.repo = "absent") =>
              /\ Count(run'.calls, "git clone") = 1
              /\ \/ /\ run'.pc \in {"clean_check", "resolve_commit"}
                    /\ fs'.repo = "git"
                    /\ fs'.work \in Remotes
                    /\ fs'.head = fs'.work
                 \/ /\ run'.pc = "failed"
                    /\ run'.exc.type = "ReleaseError"
                    /\ fs' = fs
       /\ (run.pc = "setup" /\ fs.repo = "git") =>
              /\ ~("git clone" \in Range(run'.calls))
              /\ run'.pc \in {"clean_check", "resolve_commit"}
              /\ fs' = fs
       /\ (run.pc = "setup" /\ fs.repo = "nogit") =>
              /\ ~("git clone" \in Range(run'.calls))
              /\ run'.pc = "failed"
              /\ run'.exc = ReleaseError(<<"Not a git repository">>)
              /\ fs' = fs
       /\ Count(run'.calls, "git clone") <= 1
       /\ "git clone" \in Range(run'.calls) => run'.start.repo = "absent"]_vars

C20_Witness ==
    /\ run.start.repo = "absent"
    /\ fs.repo = "git"
    /\ Count(run.calls, "git clone") = 1
    /\ run.pc = "resolve_digest"
    /\ fs.work \in Remotes

(***************************************************************************)
(* Vocabulary of the resolvers' contracts.                                 *)
(***************************************************************************)
\* sub occurs in s as a run of consecutive elements
Contains(s, sub) ==
    \E i \in 0..(Len(s) - Len(sub)) : \A k \in 1..Len(sub) : s[i + k] = sub[k]

\* the texts by which the release errors of the commit resolver differ
TipMarkers ==
    {"not found", "rate limit", "GitHub API error", "Network error", "Unexpected response"}

\* the JSON document is an object with a commit object that has a sha
HasCommitSha(body) ==
    /\ IsMap(body)
    /\ "commit" \in DOMAIN body.map
    /\ IsMap(body.map.commit)
    /\ "sha" \in DOMAIN body.map.commit.map

\* the JSON document is an object in which the expected key is absent
LacksField(body) ==
    /\ IsMap(body)
    /\ \/ "commit" \notin DOMAIN body.map
       \/ IsMap(body.map.commit) /\ "sha" \notin DOMAIN body.map.commit.map

\* the marker the claimed mapping gives a failed request, "" where the
\* mapping names none
TipMarker(resp) ==
    IF resp.err = "HTTPError" THEN
        IF resp.code = 404 THEN "not found"
        ELSE IF resp.code = 403 THEN "rate limit"
        ELSE "GitHub API error"
    ELSE IF resp.err = "URLError" THEN "Network error"
    ELSE IF resp.err = "none" /\ LacksField(resp.body) THEN "Unexpected response"
    ELSE ""

Padded(s, i, j) ==
    /\ i + j <= Len(s)
    /\ \A k \in (1..i) \cup ((Len(s) - j + 1)..Len(s)) : s[k] \in Whitespace
    /\ i + j < Len(s) => s[i + 1] \notin Whitespace /\ s[Len(s) - j] \notin Whitespace

\* the trimmed text of an output with at most MaxPad characters of
\* whitespace on either side
MaxPad == 2

Trim(s) ==
    LET p == CHOOSE p \in (0..MaxPad) \X (0..MaxPad) : Padded(s, p[1], p[2])
    IN  SubSeq(s, 1 + p[1], Len(s) - p[2])

\* the outcome r of the digest resolver is a ReleaseError and no digest
Refused(r) ==
    /\ r.exc.type = "ReleaseError"
    /\ r.exc.msg # <<>>
    /\ r.ret = <<>>
    /\ r.w.run.returned_digest = <<>>

\* C22: the digest resolver returns the inspection tool's standard output,
\* trimmed, when the trimmed text starts with 'sha256:'; any other text, a
\* non-zero exit and a timeout each give a ReleaseError, no digest is
\* returned then, and in every case the tool was run exactly once.
C22_ResolveDigestOutcomes ==
    run.pc = "resolve_digest" =>
        \A out \in SkopeoOutcomes :
            \E r \in {get_image_digest(World, ImageRef(":", run.commit_sha), out)} :
                /\ Count(r.w.run.calls, "skopeo inspect")
                       = Count(run.calls, "skopeo inspect") + 1
                /\ IF out.rc = "ok" THEN
                       \E t \in {Trim(out.stdout)} :
                           IF startswith(t, Sha256Prefix)
                           THEN r.exc = NoExc /\ r.ret = t
                           ELSE Refused(r)
                   ELSE Refused(r)

\* a run that ended on an inspection output with another prefix
C22_Witness ==
    /\ run.pc = "failed"
    /\ Count(run.calls, "skopeo inspect") = 1
    /\ run.exc = ReleaseError(<<"Invalid digest format">>)
    /\ run.image_digest = <<>>

\* C23: when the render tool succeeds its standard output becomes the whole
\* content of the generated catalog file; when it exits non-zero or times
\* out a ReleaseError is raised and the file keeps its content.
C23_RenderWritesOutput ==
    run.pc = "render" =>
        \A out \in OpmOutcomes :
            \E r \in {regenerate_catalog(World, out)} :
                IF out.rc = "ok" THEN
                    /\ r.exc = NoExc
                    /\ r.w.fs.work[output_path] = [text |-> out.stdout]
                ELSE
                    /\ r.exc.type = "ReleaseError"
                    /\ r.w.fs.work[output_path] = fs.work[output_path]

\* C24: the preflight check never raises: once it has run, it has returned
\* a pair (ok, missing descriptions), whatever the environment.
C24_PreflightNeverRaises ==
    Called("check_all_dependencies") =>
        /\ run.deps_ok \in {"true", "false"}
        /\ run.deps_ok = "true" => run.missing = <<>>
        /\ ~(run.pc = "failed" /\ run.calls = <<"check_all_dependencies">>
                 /\ run.exc # NoExc)

\* a >= b in the order of tuples: equal, or greater at the first place
\* where they differ, or b a proper beginning of a
LexGE(a, b) ==
    \/ a = b
    \/ Len(a) > Len(b) /\ SubSeq(a, 1, Len(b)) = b
    \/ \E i \in 1..Len(a) :
           /\ i <= Len(b)
           /\ a[i] > b[i]
           /\ \A j \in 1..(i - 1) : a[j] = b[j]

\* C25: check_opm_version(required) is true exactly when opm reports a
\* version whose integer tuple is greater than or equal to the required
\* tuple in tuple order; with no version determined or a version text that
\* is not numbers it is false (and nothing is raised).
C25_VersionTupleOrder ==
    machine.result # "none" =>
        (machine.result = "true"
             <=> (/\ machine.installed.kind = "version"
                  /\ LexGE(machine.installed.tuple, machine.required)))

\* check_opm_version('1.47.0') answered true on a machine with 1.47.0
C25_Witness ==
    /\ machine.result = "true"
    /\ machine.installed.kind = "version"
    /\ machine.installed.tuple = <<1, 47, 0>>
    /\ machine.required = <<1, 47, 0>>

\* the checks of the preflight in their order, by the text that starts the
\* entry of a failed one
Checks == <<"git", "skopeo", "opm", "python3-">>

\* the version of opm on the machine complies with the default minimum
Complies ==
    /\ machine.installed.kind = "version"
    /\ LexGE(machine.installed.tuple, <<1, 47, 0>>)

\* the check fails on the machine
CheckFails(c) ==
    IF c = "python3-" THEN ~machine.pre.yaml
    ELSE IF c = "opm" THEN "opm" \notin machine.pre.found \/ ~Complies
    ELSE c \notin machine.pre.found

\* the version `opm version` reports when the entry is written
VersionReported ==
    IF machine.pre.opm[2] = OpmOut(machine.installed) THEN Join(machine.installed.tuple)
    ELSE Chars(<<"1">>, <<"4", "6">>, <<"9">>)

Repository == <<quay_registry, "/", tenant, "/", bundle_component>>

\* event a is in the call history, and before every event b
Before(a, b) ==
    /\ Called(a)
    /\ \A i, j \in DOMAIN run.calls : (run.calls[i] = a /\ run.calls[j] = b) => i < j

\* C27: in every run the reference inspected is
\* registry/tenant/component:<sha>, <sha> being what the commit resolver
\* returned in the run; the candidate given to the template editor (or the
\* preview) is registry/tenant/component@<digest>, <digest> being what the
\* digest resolver returned in the run; and the image written into the
\* template is that candidate.
C27_TagResolvedToDigestBeforeEdit ==
    /\ Called("skopeo inspect") =>
           /\ Before("GET branches", "skopeo inspect")
           /\ run.returned_sha # <<>>
           /\ run.inspected = Repository \o <<":">> \o run.returned_sha
    /\ (Called("update_catalog_template") \/ Called("preview_catalog_update")) =>
           /\ Before("skopeo inspect", "update_catalog_template")
           /\ Before("skopeo inspect", "preview_catalog_update")
           /\ run.returned_digest # <<>>
           /\ run.candidate = Repository \o <<"@">> \o run.returned_digest
    /\ Called("write template") =>
           /\ HasImage(fs.work[template_path])
           /\ StoredImage(fs.work[template_path])
                  = Str(Repository \o <<"@">> \o run.returned_digest)

\* an apply run that wrote the digest-addressed candidate into the template
C27_Witness ==
    /\ run.pc = "done"
    /\ ~run.dry_run
    /\ run.inspected = Repository \o <<":">> \o ValidSha
    /\ run.candidate = Repository \o <<"@">> \o ValidDigest
    /\ StoredImage(fs.work[template_path]) = Str(run.candidate)

\* the place of the first line break of a message, 0 when it has none
FirstBreak(m) ==
    IF "\n" \notin Range(m) THEN 0
    ELSE CHOOSE k \in DOMAIN m : m[k] = "\n" /\ \A j \in 1..(k - 1) : m[j] # "\n"

\* C28: the commit of a successful apply run has a message made of a
\* summary line, an empty line and a body, and the body names the commit
\* the commit resolver returned in that run.
C28_CommitMessageNamesCommit ==
    (run.pc = "done" /\ ~run.dry_run) =>
        /\ Len(fs.log) = Len(run.start.log) + 1
        /\ \E m \in {fs.log[Len(fs.log)]} :
               \E k \in {FirstBreak(m)} :
                   /\ k > 1
                   /\ k + 1 < Len(m)
                   /\ m[k + 1] = "\n"
                   /\ run.returned_sha # <<>>
                   /\ Contains(SubSeq(m, k + 2, Len(m)), run.returned_sha)

\* a successful apply run whose commit names the forty-character commit
C28_Witness ==
    /\ run.pc = "done"
    /\ ~run.dry_run
    /\ Called("git commit")
    /\ run.returned_sha = ValidSha
    /\ Contains(fs.log[Len(fs.log)], ValidSha)

\* the texts of the automation footer
FooterTexts == {"Generated with", "Claude"}

\* C29: the message given to `git commit` holds the caller's message and
\* the automation footer: every commit a run made carries the message of
\* commit_fbc_changes and both footer texts.
C29_CommitCarriesFooter ==
    (Called("git commit") /\ Len(fs.log) > Len(run.start.log)) =>
        \E m \in {fs.log[Len(fs.log)]} :
            /\ Contains(m, CommitMessage(run.commit_sha))
            /\ FooterTexts \subseteq Range(m)

\* the external tool invocations of a run
ToolInvocations ==
    {"git clone", "git status", "git fetch", "git add", "git commit",
     "skopeo inspect", "opm render-template"}

\* C30: every failure of an external tool invocation after the preflight,
\* a non-zero exit or a timeout, ends the run with a ReleaseError that
\* carries a cause message.
C30_ToolFailuresAreReleaseErrors ==
    (/\ run.fault
     /\ run.deps_ok = "true"
     /\ run.calls # <<>>
     /\ run.calls[Len(run.calls)] \in ToolInvocations) =>
        /\ run.pc = "failed"
        /\ run.exit_code = 1
        /\ run.exc.type = "ReleaseError"
        /\ run.exc.msg # <<>>

\* the fields of a ChangeReport
ReportFields == {"template_path", "current_image", "new_image", "would_change"}

\* C31: the report the template-edit step returns, on the preview path and
\* on the apply path, holds the template path, the previous image, the
\* candidate image and a flag that is true exactly when the two differ.
C31_ChangeReportFields ==
    /\ (run.pc = "done" /\ run.deps_ok = "true") => run.change_info # Null
    /\ run.change_info # Null =>
           /\ ReportFields \subseteq DOMAIN run.change_info
           /\ run.change_info.template_path = template_path
           /\ run.change_info.new_image = run.candidate
           /\ run.change_info.would_change
                  <=> (run.change_info.current_image # Str(run.change_info.new_image))

\* the run of world w has passed the clean check and has not ended
InProgress(w) ==
    w.run.pc \in {"resolve_commit", "resolve_digest", "fetch", "edit", "render", "add", "commit"}

\* the clean check of world w passes when `git status` answers
CleanCheckPasses(w) ==
    check_fbc_repo_clean(w, [DefaultEnv EXCEPT !.tool = "ok"]).exc = NoExc

\* C32: nothing excludes a second run: while one apply run is between its
\* clean check and its commit, the clean check of the other passes
\* whenever the tree is (still) clean.
C32_NoMutualExclusion ==
    /\ (twin.run.pc = "clean_check" /\ InProgress(World) /\ ~Pending(fs)) =>
           CleanCheckPasses(twin)
    /\ (run.pc = "clean_check" /\ InProgress(twin) /\ ~Pending(fs)) =>
           CleanCheckPasses(World)

\* both runs passed the clean check and wrote the template; the first run
\* then staged and committed the template the second one wrote
C32_Witness ==
    /\ run.pc = "done"
    /\ ~run.dry_run /\ ~twin.run.dry_run
    /\ "git status" \in Range(twin.run.calls)
    /\ "write template" \in Range(twin.run.calls)
    /\ "opm render-template" \in Range(twin.run.calls)
    /\ twin.run.pc \in {"add", "commit"}
    /\ Called("write template")
    /\ twin.run.candidate # run.candidate
    /\ fs.log = <<CommitMessage(run.commit_sha)>>
    /\ StoredImage(fs.head[template_path]) = Str(twin.run.candidate)

\* the failure of the first rule the template f violates, the rules being
\* in order: the file exists, Stable is present, Bundles is present,
\* Bundles is a non-empty list, Image is present in the first element
FirstViolated(f) ==
    IF ~exists(f) THEN <<"Template not found">>
    ELSE IF ~(IsMap(f.doc) /\ "Stable" \in DOMAIN f.doc.map) THEN
        <<"Template missing '", "Stable", "' section">>
    ELSE IF ~(IsMap(f.doc.map.Stable) /\ "Bundles" \in DOMAIN f.doc.map.Stable.map) THEN
        <<"Template missing '", "Stable", ".", "Bundles", "' section">>
    ELSE IF ~(/\ IsList(f.doc.map.Stable.map.Bundles)
              /\ f.doc.map.Stable.map.Bundles.list # <<>>) THEN
        <<"Template has empty or invalid ", "Bundles", " list">>
    ELSE <<"Template missing '", "Image", "' field in first bundle">>

\* C33: on every invalid template the preview and the editor both fail,
\* with the same failure, and the failure is that of the first rule the
\* template violates.
C33_SharedOrderedValidation ==
    (run.pc = "edit" /\ ~HasImage(fs.work[template_path])) =>
        \E p \in {preview_catalog_update(World, template_path, Candidate)},
           u \in {update_catalog_template(World, template_path, Candidate)} :
            /\ p.exc.type = "ReleaseError"
            /\ u.exc.type = "ReleaseError"
            /\ p.exc = u.exc
            /\ (exists(fs.work[template_path]) => fs.work[template_path].fmt # "invalid")
                   => p.exc.msg = FirstViolated(fs.work[template_path])

\* the template of tree f is modified and uncommitted
Stranded(f) == f.repo = "git" /\ f.work[template_path] # f.head[template_path]

\* the run has gone past the clean check
PastCleanCheck ==
    \/ InProgress(World)
    \/ run.pc \in {"summary", "done"}
    \/ Called("get_latest_commit_sha")

OcpVersionChars == {"v", "/", "."}

MaxVersionLen == 3

OcpVersions == UNION {[1..n -> OcpVersionChars] : n \in 0..MaxVersionLen}

fbc_repo_path == [root |-> "repo", parts |-> <<>>]

\* the components of a path string: pathlib and git both drop empty
\* components and "." components
PathParts(s) ==
    SelectSeq(split(s, "/"), LAMBDA c : c # <<>> /\ c # <<".">>)

\* pathlib's `base / s`: an absolute s replaces the base
path_join(base, s) ==
    IF s # <<>> /\ s[1] = "/" THEN [root |-> "/", parts |-> PathParts(s)]
    ELSE [root |-> base.root, parts |-> base.parts \o PathParts(s)]

RECURSIVE Fold(_, _)
\* the place a path names once its ".." components are followed
Fold(p, rest) ==
    IF rest = <<>> THEN p
    ELSE IF rest[1] = <<".", ".">> THEN
        IF p.parts = <<>> THEN
            Fold([root |-> IF p.root = "/" THEN "/" ELSE "outside", parts |-> <<>>], Tail(rest))
        ELSE Fold([p EXCEPT !.parts = SubSeq(p.parts, 1, Len(p.parts) - 1)], Tail(rest))
    ELSE Fold([p EXCEPT !.parts = Append(p.parts, rest[1])], Tail(rest))

\* the file an open() of path p reaches
realpath(p) == Fold([root |-> p.root, parts |-> <<>>], p.parts)

\* update_fbc_catalog: fbc_repo_path / ocp_version / 'catalog-template.yaml'
TemplatePath(v) ==
    path_join(path_join(fbc_repo_path, v), <<"catalog-template.yaml">>)

\* regenerate_catalog: fbc_repo_path / ocp_version / 'catalog' /
\* 'instaslice-operator' / 'catalog.json'
OutputPath(v) ==
    path_join(path_join(path_join(path_join(fbc_repo_path, v), <<"catalog">>),
                        <<"instaslice-operator">>), <<"catalog.json">>)

\* commit_fbc_changes: the two f-strings handed to `git add`
StagedFiles(v) ==
    {v \o <<"/", "catalog-template.yaml">>,
     v \o <<"/", "catalog", "/", "instaslice-operator", "/", "catalog.json">>}

\* `git -C fbc_repo_path add <pathspec>`: the file the pathspec names; a
\* pathspec that is absolute or climbs out of the repository is refused
\* ("fatal: ... is outside repository")
git_pathspec(s) ==
    IF s # <<>> /\ s[1] = "/" THEN [root |-> "/", parts |-> PathParts(s)]
    ELSE realpath([root |-> "repo", parts |-> PathParts(s)])

(***************************************************************************)
(* The specification of the paths of one apply run, by platform version:   *)
(* machine holds the version, the files written so far and the files       *)
(* staged; the three steps are the template edit, the render and git add.  *)
(***************************************************************************)
PathsState(v) ==
    [NoMachine EXCEPT !.result = "edit"] @@
    [version |-> v, written |-> {}, staged |-> {}]

PathsInit ==
    /\ fs = NoRepo("absent")
    /\ run = NewRun(1, FALSE, fs)
    /\ twin = NoTwin
    /\ machine \in {PathsState(v) : v \in OcpVersions}

\* update_catalog_template writes the template
WriteTemplate ==
    /\ machine.result = "edit"
    /\ machine' = [machine EXCEPT !.result = "render",
                                  !.written = @ \cup {realpath(TemplatePath(machine.version))}]
    /\ UNCHANGED <<fs, run, twin>>

\* regenerate_catalog writes the catalog
WriteCatalog ==
    /\ machine.result = "render"
    /\ machine' = [machine EXCEPT !.result = "add",
                                  !.written = @ \cup {realpath(OutputPath(machine.version))}]
    /\ UNCHANGED <<fs, run, twin>>

\* commit_changes: git add of the files of commit_fbc_changes
StageFiles ==
    /\ machine.result = "add"
    /\ \E named \in {{git_pathspec(s) : s \in StagedFiles(machine.version)}} :
           IF \A p \in named : p.root = "repo" THEN
               machine' = [machine EXCEPT !.result = "commit", !.staged = named]
           ELSE machine' = [machine EXCEPT !.result = "failed"]
    /\ UNCHANGED <<fs, run, twin>>

PathsNext ==
    \/ WriteTemplate
    \/ WriteCatalog
    \/ StageFiles

SpecPaths == PathsInit /\ [][PathsNext]_vars

(***************************************************************************)
(* C35: for every platform version, once git add has run the files staged  *)
(* are exactly the files the run wrote, and they are the template and the  *)
(* catalog of that version inside the repository.                          *)
(***************************************************************************)
C35_StagedIsWritten ==
    ("version" \in DOMAIN machine /\ machine.result \in {"commit", "failed"}) =>
        /\ machine.staged = machine.written
        /\ Cardinality(machine.staged) = 2
        /\ \A p \in machine.staged : p.root = "repo"

\* the events of a run that touch the template
TemplateAccess ==
    {"preview_catalog_update", "update_catalog_template", "read template", "write template"}

C37_FailedEditWritesNothing ==
    /\ (run.pc = "edit" /\ ~HasImage(fs.work[template_path])) =>
           \E u \in {update_catalog_template(World, template_path, Candidate)} :
               /\ u.exc.type = "ReleaseError"
               /\ u.w.fs = fs
               /\ "write template" \notin Range(u.w.run.calls)
    /\ [][(run.pc = "edit" /\ ~run.dry_run /\ run'.pc = "failed") =>
              /\ ~HasImage(fs.work[template_path])
              /\ fs' = fs
              /\ ~("write template" \in Range(run'.calls))
              /\ run'.exc.type = "ReleaseError"]_vars

\* an apply run whose edit failed on a template with an empty Bundles list;
\* the template is the one the run started with
C37_Witness ==
    /\ ~run.dry_run
    /\ run.pc = "failed"
    /\ Called("update_catalog_template")
    /\ Called("read template")
    /\ run.exc = ReleaseError(<<"Template has empty or invalid ", "Bundles", " list">>)
    /\ run.start.repo = "git"
    /\ fs.work[template_path] = run.start.work[template_path]
    /\ fs.work[template_path].doc = TemplateDoc(List(<<>>))

(***************************************************************************)
(* C38: on every structurally valid template, applying a candidate image   *)
(* and then the same candidate again leaves the file the first apply       *)
(* left, hence the same document, and a preview of that candidate after    *)
(* the first apply reports no change.                                      *)
(***************************************************************************)
C38_ApplyIsIdempotent ==
    (run.pc = "edit" /\ HasImage(fs.work[template_path])) =>
        \E once \in {update_catalog_template(World, template_path, Candidate)} :
            \E twice \in {update_catalog_template(once.w, template_path, Candidate)},
               p \in {preview_catalog_update(once.w, template_path, Candidate)} :
                /\ once.exc = NoExc
                /\ twice.exc = NoExc
                /\ twice.w.fs = once.w.fs
                /\ safe_load(twice.w.fs.work[template_path]) =
                       safe_load(once.w.fs.work[template_path])
                /\ StoredImage(twice.w.fs.work[template_path]) = Str(Candidate)
                /\ p.exc = NoExc
                /\ p.ret.new_image = Candidate
                /\ p.ret.would_change = FALSE

\* a second apply run has applied the candidate the first run committed:
\* the template is the one it found, which differed from the original
C38_Witness ==
    /\ run.n = 2
    /\ ~run.dry_run
    /\ run.pc = "render"
    /\ Called("write template")
    /\ fs.log = <<CommitMessage(run.commit_sha)>>
    /\ HasImage(fs.work[template_path])
    /\ StoredImage(fs.work[template_path]) = Str(run.candidate)
    /\ StoredImage(run.start.work[template_path]) = Str(run.candidate)
    /\ fs.work[template_path] = run.start.work[template_path]
    /\ Len(fs.work[template_path].doc.map.Stable.map.Bundles.list) = 3
    /\ run.candidate # OldImage

\* the positions of a run in program order; the exits come last
PcOrder ==
    <<"main", "setup", "clean_check", "resolve_commit", "resolve_digest", "fetch",
      "edit", "render", "add", "commit", "summary">>

Position(pc) ==
    IF pc \in Range(PcOrder) THEN CHOOSE i \in DOMAIN PcOrder : PcOrder[i] = pc
    ELSE Len(PcOrder) + 1

(***************************************************************************)
(* C39: when every external call returns or reaches its timeout, every     *)
(* run, dry or apply, eventually ends, at DONE with all the steps of its   *)
(* mode made or at an exit; until then every step moves the run to a       *)
(* later position, so it neither stays at a step nor comes back to one.    *)
(***************************************************************************)
C39_EveryRunTerminates ==
    /\ (~Terminated(World)) ~> Terminated(World)
    /\ [][(run'.n = run.n) => Position(run'.pc) > Position(run.pc)]_vars
    /\ [](run.pc = "done" =>
              /\ run.exit_code = 0
              /\ IF run.dry_run THEN Called("preview_catalog_update") /\ Called("print summary")
                 ELSE Called("write template") /\ Called("write catalog") /\ Called("git commit"))
    /\ [](run.pc = "failed" => run.exit_code = 1)

\* an apply run that went through every step and ended at DONE
C39_Witness ==
    /\ ~run.dry_run
    /\ run.pc = "done"
    /\ run.start.repo = "absent"
    /\ Called("git clone")
    /\ Called("git commit")
    /\ fs.log = <<CommitMessage(run.commit_sha)>>

====
